---- MODULE Spec2Model ----
(***************************************************************************)
(* Model of the ZenMoney skill's entity cache and synchronisation engine   *)
(* (src/src/utils/cache.ts, class DataCache) and of the gateway client it  *)
(* calls (ZenMoneyClient.diff).                                            *)
(*                                                                         *)
(* Two specifications share the definitions of this module:                *)
(*   SpecApply  applyDiff as a function of (cache, response), driven by    *)
(*              responses drawn from a bounded set;                        *)
(*   Spec       the asynchronous protocol of sync / ensureInitialized /    *)
(*              writeDiff with requests in flight at the gateway.          *)
(***************************************************************************)
EXTENDS Integers, Sequences, FiniteSets, TLC

(***************************************************************************)
(* Bounds of the model.                                                    *)
(***************************************************************************)
\* entity ids 1..MaxId (stand-ins for UUIDs and instrument numbers)
MaxId == 1
\* distinguishable versions of one entity
MaxVal == 1
\* longest entity array of one response
MaxBatch == 1
\* longest deletion list of one response
MaxDel == 1
\* largest timestamp the gateway hands out
MaxTs == 2
\* calls made on the cache in a run of Spec
MaxCalls == 2
\* last reading of the clock
MaxTime == 2
\* transaction ids 1..BatchIds of the batches of SpecBatch
BatchIds == 2
\* longest transaction array of a batch of SpecBatch
BatchLen == 2
\* longest deletion list of a batch of SpecBatch
BatchDel == 1
\* largest amount of a transaction, a reminder or a budget in SpecTools
MaxAmount == 1

\* the dates of transactions and of date arguments run from 0 to MaxDate
MaxDate == 2
\* a client makes at most MaxRequests requests
MaxRequests == 2
\* the days of the billing period of the forecast run from 0 to MaxDay
MaxDay == 6

(***************************************************************************)
(* JavaScript values.                                                      *)
(***************************************************************************)
\* `undefined` in the place of a response's serverTimestamp
Undefined == -1
\* `null` in the place of a budget's tag
NullTag == -1
\* the string 'null' that `b.tag ?? 'null'` puts into a budget key
NullString == 0

Ids == 1..MaxId
Vals == 1..MaxVal

(***************************************************************************)
(* Map<K, V>: a function whose domain is the set of keys present.          *)
(***************************************************************************)
EmptyMap == [k \in {} |-> 0]

\* a set() that keeps the value a key already has
MapSetIfAbsent(m, key, value) ==
    [k \in (DOMAIN m) \cup {key} |-> IF k \in DOMAIN m THEN m[k] ELSE value]

MapSet(m, key, value) ==
    [k \in (DOMAIN m) \cup {key} |-> IF k = key THEN value ELSE m[k]]

MapDelete(m, key) == [k \in (DOMAIN m) \ {key} |-> m[k]]

MapHas(m, key) == key \in DOMAIN m

(***************************************************************************)
(* The entity maps of DataCache, in the order applyDiff merges them.  The  *)
(* eleven maps are held as one map keyed by << kind, key >>: the entry     *)
(* << "transaction", id >> is the entry id of this.transactions.           *)
(***************************************************************************)
KindOrder ==
    << "instrument", "country", "company", "user",
       "account", "tag", "merchant", "reminder", "reminderMarker",
       "transaction", "budget" >>

Kinds == { KindOrder[i] : i \in 1..Len(KindOrder) }

\* the kinds applyDeletion has a case for
DeletableKinds ==
    { "account", "tag", "merchant", "reminder", "reminderMarker", "transaction" }

EmptyStore == EmptyMap

\* `${b.tag ?? 'null'}:${b.date}`
BudgetKey(b) == << IF b.tag = NullTag THEN NullString ELSE b.tag, b.date >>

\* the key an entity of a kind is stored under
KeyOf(kind, e) == IF kind = "budget" THEN BudgetKey(e) ELSE e.id

(***************************************************************************)
(* applyDiff.  A response is [serverTimestamp, arrays, deletion]: arrays   *)
(* maps the kinds the response carries to their entity arrays, deletion    *)
(* is the deletion list.  An array element with null = TRUE is a JSON      *)
(* null: reading its id (or its object) throws a TypeError, which ends     *)
(* applyDiff where it stands.                                              *)
(***************************************************************************)
ArrayOf(diff, kind) ==
    IF kind \in DOMAIN diff.arrays THEN diff.arrays[kind] ELSE << >>

\* arr.forEach(e => map.set(key(e), e)), from element i on
RECURSIVE ForEachSet(_, _, _, _)
ForEachSet(kind, st, arr, i) ==
    IF i > Len(arr) THEN [store |-> st, threw |-> FALSE]
    ELSE IF arr[i].null THEN [store |-> st, threw |-> TRUE]
    ELSE ForEachSet(kind, MapSet(st, << kind, KeyOf(kind, arr[i]) >>, arr[i]),
                    arr, i + 1)

\* the eleven forEach statements, from the k-th on
RECURSIVE MergeArrays(_, _, _)
MergeArrays(st, diff, k) ==
    IF k > Len(KindOrder) THEN [store |-> st, threw |-> FALSE]
    ELSE LET kind == KindOrder[k]
             r == ForEachSet(kind, st, ArrayOf(diff, kind), 1)
         IN  IF r.threw THEN r
             ELSE MergeArrays(r.store, diff, k + 1)

\* an applyDeletion without any case
ApplyDeletionIgnores(st, deletion) == st

ApplyDeletion(st, deletion) ==
    IF deletion.object \in DeletableKinds
    THEN MapDelete(st, << deletion.object, deletion.id >>)
    ELSE st

\* diff.deletion?.forEach(d => this.applyDeletion(d)), from element i on
RECURSIVE ForEachDeletion(_, _, _)
ForEachDeletion(st, dels, i) ==
    IF i > Len(dels) THEN [store |-> st, threw |-> FALSE]
    ELSE IF dels[i].null THEN [store |-> st, threw |-> TRUE]
    ELSE ForEachDeletion(ApplyDeletion(st, dels[i]), dels, i + 1)

\* an applyDiff that leaves the cursor alone
ApplyCursorKeeps(ts, diff) == ts

\* the cursor assignment that opens applyDiff
ApplyCursor(ts, diff) ==
    IF diff.serverTimestamp # Undefined THEN diff.serverTimestamp ELSE ts

\* applyDiff with the deletion loop moved in front of the merges
ApplyEntitiesDeletionsFirst(st, diff) ==
    LET deleted == ForEachDeletion(st, diff.deletion, 1)
    IN  IF deleted.threw THEN deleted
        ELSE MergeArrays(deleted.store, diff, 1)

\* the statements of applyDiff after the cursor assignment
ApplyEntities(st, diff) ==
    LET merged == MergeArrays(st, diff, 1)
    IN  IF merged.threw THEN merged
        ELSE ForEachDeletion(merged.store, diff.deletion, 1)

\* applyDiff on a cache with cursor ts and maps st: the cursor, the maps and
\* whether it threw
ApplyDiff(ts, st, diff) ==
    [serverTimestamp |-> ApplyCursor(ts, diff)] @@ ApplyEntities(st, diff)

(***************************************************************************)
(* The responses the gateway may return.  A response carries entity        *)
(* arrays for at most one kind (each kind has a map of its own, and no     *)
(* statement of applyDiff reads another kind's map) and a deletion list    *)
(* over all generated kinds.                                               *)
(***************************************************************************)
\* kinds the generated responses carry: a system kind, a user kind, budgets
GenKinds == { "instrument", "transaction", "budget" }

SeqsUpTo(S, n) == UNION { [1..k -> S] : k \in 0..n }

NullElement == [null |-> TRUE]

Entities(kind) ==
    IF kind = "budget"
    THEN [null : {FALSE}, tag : {NullTag} \cup Ids, date : {1}, v : Vals]
    ELSE [null : {FALSE}, id : Ids, v : Vals]

Elements(kind) == Entities(kind) \cup {NullElement}

DeletionRecords == [null : {FALSE}, object : GenKinds, id : Ids]

DeletionLists == SeqsUpTo(DeletionRecords \cup {NullElement}, MaxDel)

ArraySets ==
    {EmptyMap} \cup
    UNION { { [k \in {kind} |-> arr] :
                arr \in SeqsUpTo(Elements(kind), MaxBatch) \ {<< >>} } :
            kind \in GenKinds }

Timestamps == 1..MaxTs

\* the responses applied in SpecApply: without a timestamp, or with the latest
Responses ==
    [serverTimestamp : {Undefined, MaxTs},
     arrays : ArraySets,
     deletion : DeletionLists]

\* a response none of whose elements is null
WellFormed(diff) ==
    /\ \A kind \in DOMAIN diff.arrays :
          \A i \in 1..Len(diff.arrays[kind]) : ~diff.arrays[kind][i].null
    /\ \A i \in 1..Len(diff.deletion) : ~diff.deletion[i].null

(***************************************************************************)
(* State.                                                                  *)
(***************************************************************************)
VARIABLES
    serverTimestamp,   \* DataCache.serverTimestamp, the cursor
    initialized,       \* DataCache.initialized
    syncPromise,       \* DataCache.syncPromise: 0 is null, else the call that owns it
    lastSyncTime,      \* DataCache.lastSyncTime
    store,             \* the eleven entity maps, keyed by << kind, key >>
    now,               \* Date.now(), in units of CACHE_TTL_MS
    calls,             \* the calls made on the cache and their requests
    gwClock,           \* the last timestamp the gateway handed out
    lastApply,         \* SpecApply: << >>, or the one application of applyDiff
    client             \* SpecClient: the ZenMoneyClient and its requests

cache == << serverTimestamp, initialized, syncPromise, lastSyncTime, store >>

vars == << serverTimestamp, initialized, syncPromise, lastSyncTime, store,
           now, calls, gwClock, lastApply, client >>

(***************************************************************************)
(* SpecClient: the requests of one ZenMoneyClient.                         *)
(*                                                                         *)
(* client.token is the bearer token (NoToken: null), client.credentials    *)
(* says whether credentials were configured, client.issued counts the      *)
(* tokens authenticate() has returned, and client.pc is where request()    *)
(* stands:                                                                 *)
(*   "idle"        no request is running                                   *)
(*   "ensureAuth"  suspended on authenticate() before the first fetch      *)
(*   "fetch"       suspended on the first fetch                            *)
(*   "reAuth"      suspended on authenticate() after a 401                 *)
(*   "retry"       suspended on the second fetch                           *)
(* client.log holds one record for each request made: the tokens its       *)
(* fetches carried, the status of each response, the calls of              *)
(* authenticate() it made after a 401 and how they ended, and its outcome, *)
(* "pending", "returned" or "threw".                                       *)
(***************************************************************************)
\* this.token = null
NoToken == 0

\* the token of the configuration
ConfiguredToken == 1

\* the statuses the gateway answers with: success, token expired, failure
Statuses == {200, 401, 500}

\* response.ok
Ok(status) == status \in 200..299

\* the clients that are configured with a token, with credentials, or both
Clients ==
    { [token |-> token, credentials |-> credentials, issued |-> 0,
       pc |-> "idle", log |-> << >>] :
        token \in {NoToken, ConfiguredToken}, credentials \in BOOLEAN }

\* the record of a request as it is made
NewRequest ==
    [bearers |-> << >>, statuses |-> << >>, reAuths |-> 0,
     reAuthFailed |-> FALSE, outcome |-> "pending"]

\* the request that is running, or the last one that ran
Current(c) == c.log[Len(c.log)]

\* the request changed, the client otherwise as it is
WithCurrent(c, r) == [c EXCEPT !.log[Len(c.log)] = r]

\* fetch(...): the request leaves with the client's token
Fetch(c, pc) ==
    [WithCurrent(c, [Current(c) EXCEPT !.bearers = Append(@, c.token)])
        EXCEPT !.pc = pc]

\* request() ends: it returns the response, or it throws
Ended(c, outcome) ==
    [WithCurrent(c, [Current(c) EXCEPT !.outcome = outcome])
        EXCEPT !.pc = "idle"]

\* ensureAuth() and what follows it: with a token the fetch is sent, pc
\* becoming `sent`; with neither token nor credentials it throws; else the
\* client waits for authenticate(), pc becoming `waiting`
ensureAuth(c, waiting, sent) ==
    IF c.token # NoToken THEN Fetch(c, sent)
    ELSE IF ~c.credentials THEN Ended(c, "threw")
    ELSE [c EXCEPT !.pc = waiting]

\* authenticate() has returned: the token is the one it issued, and the
\* fetch is sent
authenticated(c) ==
    LET issued == [c EXCEPT !.token = ConfiguredToken + c.issued + 1,
                            !.issued = c.issued + 1]
    IN  IF c.pc = "ensureAuth" THEN Fetch(issued, "fetch")
        ELSE Fetch(WithCurrent(issued, [Current(issued) EXCEPT
                                            !.reAuths = @ + 1]),
                   "retry")

\* authenticate() has thrown: request() throws what the await threw
authenticateThrew(c) ==
    IF c.pc = "ensureAuth" THEN Ended(c, "threw")
    ELSE Ended(WithCurrent(c, [Current(c) EXCEPT !.reAuths = @ + 1,
                                                   !.reAuthFailed = TRUE]),
               "threw")

\* a status noted with the request
Noted(c, status) ==
    WithCurrent(c, [Current(c) EXCEPT !.statuses = Append(@, status)])

\* a retry whose response is returned whatever its status
retryReturnsAnyResponse(c, status) == Ended(Noted(c, status), "returned")

\* the response of the second fetch: `if (!retryResponse.ok) throw`, else
\* return
retryResponse(c, status) ==
    IF ~Ok(status) THEN Ended(Noted(c, status), "threw")
    ELSE Ended(Noted(c, status), "returned")

\* the response of the first fetch: on 401 throw without credentials, else
\* drop the token and authenticate again; throw on any other status that is
\* not a success; else return
response(c, status) ==
    IF status = 401
    THEN IF ~c.credentials THEN Ended(Noted(c, status), "threw")
         ELSE ensureAuth([Noted(c, status) EXCEPT !.token = NoToken],
                         "reAuth", "retry")
    ELSE IF ~Ok(status) THEN Ended(Noted(c, status), "threw")
    ELSE Ended(Noted(c, status), "returned")

\* a client that makes no request
NoClient ==
    [token |-> ConfiguredToken, credentials |-> FALSE, issued |-> 0,
     pc |-> "idle", log |-> << >>]

(***************************************************************************)
(* SpecApply: one application of applyDiff.  The cache is as constructed,  *)
(* or as a first full snapshot left it; the response is any of Responses.  *)
(***************************************************************************)
\* a call that has not been made
Idle ==
    [op |-> "none", pc |-> "idle", awaits |-> 0, cursor |-> Undefined,
     gw |-> "none", ts |-> 0,
     during |-> 0, found |-> "none", virgin |-> FALSE]

NoCalls == [i \in 1..MaxCalls |-> Idle]

\* a full snapshot: the first timestamp, well-formed arrays, no deletions
Snapshots ==
    { d \in [serverTimestamp : {1}, arrays : ArraySets, deletion : {<< >>}] :
        WellFormed(d) }

\* the fields of a DataCache after construction
Constructed ==
    /\ serverTimestamp = 0
    /\ initialized = FALSE
    /\ syncPromise = 0
    /\ lastSyncTime = 0
    /\ store = EmptyStore

InitApply ==
    /\ now = 0
    /\ \/ Constructed
       \/ \E d \in Snapshots :
            /\ serverTimestamp = ApplyDiff(0, EmptyStore, d).serverTimestamp
            /\ store = ApplyDiff(0, EmptyStore, d).store
            /\ initialized = TRUE
            /\ syncPromise = 0
            /\ lastSyncTime = now
    /\ calls = NoCalls
    /\ client = NoClient
    /\ gwClock = 0
    /\ lastApply = << >>

\* this.applyDiff(diff)
ApplyResponse(diff) ==
    \E r \in { ApplyDiff(serverTimestamp, store, diff) } :
        /\ serverTimestamp' = r.serverTimestamp
        /\ store' = r.store
        /\ lastApply' = << [diff |-> diff,
                            before |-> [serverTimestamp |-> serverTimestamp,
                                        store |-> store],
                            threw |-> r.threw] >>
        /\ UNCHANGED << client, initialized, syncPromise, lastSyncTime, now, calls, gwClock >>

\* applyDiff is applied once in a behaviour of SpecApply
NextApply == lastApply = << >> /\ \E diff \in Responses : ApplyResponse(diff)

SpecApply == InitApply /\ [][NextApply]_vars

(***************************************************************************)
(* SpecBatch: two responses applied one after the other.  A response       *)
(* carries a transaction array and a deletion list of transactions; what   *)
(* an element holds besides its id is where it comes from: << n, i >> is   *)
(* the i-th element of the n-th response, << 0, 0 >> an entity the cache   *)
(* held before.                                                            *)
(***************************************************************************)
BatchEntity(id, n, i) == [null |-> FALSE, id |-> id, v |-> << n, i >>]

\* the transaction arrays the n-th response may carry
BatchArrays(n) ==
    { [i \in 1..Len(ids) |-> BatchEntity(ids[i], n, i)] :
        ids \in SeqsUpTo(1..BatchIds, BatchLen) }

BatchDeletions ==
    SeqsUpTo([null : {FALSE}, object : {"transaction"}, id : 1..BatchIds],
             BatchDel)

\* the n-th response
Batches(n) ==
    { [serverTimestamp |-> n,
       arrays |-> IF arr = << >> THEN EmptyMap
                  ELSE [k \in {"transaction"} |-> arr],
       deletion |-> dels] :
        arr \in BatchArrays(n), dels \in BatchDeletions }

\* a cache that holds every transaction and an instrument
FullStore ==
    [key \in ({"transaction"} \X (1..BatchIds)) \cup {<< "instrument", 1 >>}
        |-> BatchEntity(key[2], 0, 0)]

InitBatch ==
    /\ now = 0
    /\ \/ Constructed
       \/ /\ serverTimestamp = 0
          /\ store = FullStore
          /\ initialized = TRUE
          /\ syncPromise = 0
          /\ lastSyncTime = now
    /\ calls = NoCalls
    /\ client = NoClient
    /\ gwClock = 0
    /\ lastApply = << >>

\* this.applyDiff(diff), recorded after the applications before it
ApplyBatch(diff) ==
    \E r \in { ApplyDiff(serverTimestamp, store, diff) } :
        /\ serverTimestamp' = r.serverTimestamp
        /\ store' = r.store
        /\ lastApply' = Append(lastApply,
                               [diff |-> diff,
                                before |-> [serverTimestamp |-> serverTimestamp,
                                            store |-> store],
                                threw |-> r.threw])
        /\ UNCHANGED << client, initialized, syncPromise, lastSyncTime, now, calls, gwClock >>

NextBatch ==
    /\ Len(lastApply) < 2
    /\ \E diff \in Batches(Len(lastApply) + 1) : ApplyBatch(diff)

SpecBatch == InitBatch /\ [][NextBatch]_vars

(***************************************************************************)
(* Spec: the calls on one DataCache and their requests at the gateway.     *)
(*                                                                         *)
(* calls[i] is the i-th call made on the cache:                            *)
(*   op      "sync", "ensureInitialized" or "writeDiff" ("none": not made) *)
(*   pc      "awaitSync"  suspended on the syncPromise of call `awaits`    *)
(*           "awaitDiff"  suspended on its own client.diff request         *)
(*           "resolved" / "rejected"  the call's promise has settled       *)
(*   cursor  the serverTimestamp its request carries (Undefined: it has    *)
(*           sent no request)                                              *)
(*   gw      its request: "sent", "served" (the gateway has processed it   *)
(*           and stamped the response ts), "answered", "failed"            *)
(* and, recorded when the call is made, for the claims to refer to:        *)
(*   during  the call owning the sync in flight (0: none)                  *)
(*   found   what ensureInitialized found, or would have found had it been *)
(*           called where writeDiff is: "uninitialized", "stale", "fresh"  *)
(*   virgin  no response had been applied whole to the cache               *)
(*                                                                         *)
(* A step is one task of the event loop with the microtasks it queues: a   *)
(* call runs to its first suspension; a response runs the continuation of  *)
(* the call that awaits it and then, in the order they subscribed, the     *)
(* continuations of the calls that await the promise it settles.           *)
(***************************************************************************)
\* 5 * 60 * 1000 ms, the unit of `now`
CACHE_TTL_MS == 1

CallIds == 1..MaxCalls

\* the entity arrays of the responses in Spec: none, one transaction, a null
ProtocolArrays ==
    { EmptyMap,
      [k \in {"transaction"} |-> << [null |-> FALSE, id |-> 1, v |-> 1] >>],
      [k \in {"transaction"} |-> << NullElement >>] }

\* a response has been applied whole to the cache
Synchronized ==
    \/ initialized
    \/ \E j \in CallIds : calls[j].gw = "answered" /\ calls[j].pc # "rejected"

\* client.diff({serverTimestamp: this.serverTimestamp, ...}): the request leaves
SendRequest(c, cursor) ==
    [c EXCEPT !.pc = "awaitDiff", !.cursor = cursor, !.gw = "sent"]

\* sync() with the join on the promise in flight left out
SyncNoJoin(i, c) ==
    [call |-> SendRequest(c, serverTimestamp), syncPromise |-> i]

\* sync(), to its first suspension: join the promise in flight, or start _doSync
Sync(i, c) ==
    IF syncPromise # 0
    THEN [call |-> [c EXCEPT !.pc = "awaitSync", !.awaits = syncPromise],
          syncPromise |-> syncPromise]
    ELSE [call |-> SendRequest(c, serverTimestamp), syncPromise |-> i]

\* what ensureInitialized finds
Staleness ==
    IF ~initialized THEN "uninitialized"
    ELSE IF now - lastSyncTime > CACHE_TTL_MS THEN "stale"
    ELSE "fresh"

\* ensureInitialized(), to its first suspension
EnsureInitialized(i, c) ==
    IF ~initialized THEN Sync(i, c)
    ELSE IF now - lastSyncTime > CACHE_TTL_MS THEN Sync(i, c)
    ELSE [call |-> [c EXCEPT !.pc = "resolved"], syncPromise |-> syncPromise]

\* writeDiff() that does not wait for the sync in flight
WriteDiffNoWait(i, c) ==
    [call |-> SendRequest(c, serverTimestamp), syncPromise |-> syncPromise]

\* writeDiff(), to its first suspension: wait for the sync in flight, or send
WriteDiff(i, c) ==
    IF syncPromise # 0
    THEN [call |-> [c EXCEPT !.pc = "awaitSync", !.awaits = syncPromise],
          syncPromise |-> syncPromise]
    ELSE [call |-> SendRequest(c, serverTimestamp), syncPromise |-> syncPromise]

\* the i-th call is the next one to be made
NextCall(i) ==
    /\ calls[i].op = "none"
    /\ \A j \in 1..(i - 1) : calls[j].op # "none"

\* the record of a call as it is made
Made(op) ==
    [Idle EXCEPT !.op = op, !.during = syncPromise, !.virgin = ~Synchronized,
                 !.found = IF op = "sync" THEN "none" ELSE Staleness]

Enter(i, r) ==
    /\ calls' = [calls EXCEPT ![i] = r.call]
    /\ syncPromise' = r.syncPromise
    /\ UNCHANGED << client, serverTimestamp, initialized, lastSyncTime, store,
                    now, gwClock, lastApply >>

SyncCall(i) == NextCall(i) /\ Enter(i, Sync(i, Made("sync")))

EnsureCall(i) ==
    NextCall(i) /\ Enter(i, EnsureInitialized(i, Made("ensureInitialized")))

WriteCall(i) == NextCall(i) /\ Enter(i, WriteDiff(i, Made("writeDiff")))

(***************************************************************************)
(* The gateway.                                                            *)
(***************************************************************************)
\* the gateway processes a request; its timestamps never decrease
Serve(i) ==
    /\ calls[i].gw = "sent"
    /\ \E ts \in { gwClock, gwClock + 1 } \cap Timestamps :
          /\ gwClock' = ts
          /\ calls' = [calls EXCEPT ![i].gw = "served", ![i].ts = ts]
    /\ UNCHANGED << client, cache, now, lastApply >>

\* Date.now() advances
Tick ==
    /\ now < MaxTime
    /\ now' = now + 1
    /\ UNCHANGED << client, cache, calls, gwClock, lastApply >>

(***************************************************************************)
(* The continuations that run when a request comes back.  resp is what     *)
(* `await this.client.diff(...)` yields: [ok |-> TRUE, diff |-> response], *)
(* or ok = FALSE when the client throws (network error, authentication     *)
(* failure, non-success status).                                           *)
(***************************************************************************)
GatewayError == [ok |-> FALSE, diff |-> [serverTimestamp |-> Undefined,
                                         arrays |-> EmptyMap, deletion |-> << >>]]

\* the fields of the cache, untouched
CacheNow(outcome) ==
    [serverTimestamp |-> serverTimestamp, store |-> store,
     initialized |-> initialized, lastSyncTime |-> lastSyncTime,
     outcome |-> outcome]

\* the cache when applyDiff threw: what applyDiff had assigned stays, the
\* statements after the call are not reached
Thrown(r) ==
    [CacheNow("rejected") EXCEPT
        !.serverTimestamp = r.serverTimestamp, !.store = r.store]

\* the one element of a singleton
The(S) == CHOOSE x \in S : TRUE

\* _doSync that marks the cache synchronized whether or not the request failed
DoSyncMarksAlways(resp) ==
    IF ~resp.ok
    THEN [CacheNow("rejected") EXCEPT !.initialized = TRUE, !.lastSyncTime = now]
    ELSE The({ [serverTimestamp |-> r.serverTimestamp, store |-> r.store,
                initialized |-> TRUE, lastSyncTime |-> now,
                outcome |-> IF r.threw THEN "rejected" ELSE "resolved"] :
               r \in { ApplyDiff(serverTimestamp, store, resp.diff) } })

\* _doSync from `await this.client.diff` on
DoSync(resp) ==
    IF ~resp.ok THEN CacheNow("rejected")
    ELSE The({ IF r.threw THEN Thrown(r)
               ELSE [serverTimestamp |-> r.serverTimestamp, store |-> r.store,
                     initialized |-> TRUE, lastSyncTime |-> now,
                     outcome |-> "resolved"] :
               r \in { ApplyDiff(serverTimestamp, store, resp.diff) } })

\* writeDiff from `await this.client.diff` on
WriteDiffApply(resp) ==
    IF ~resp.ok THEN CacheNow("rejected")
    ELSE The({ IF r.threw THEN Thrown(r)
               ELSE [serverTimestamp |-> r.serverTimestamp, store |-> r.store,
                     initialized |-> initialized, lastSyncTime |-> now,
                     outcome |-> "resolved"] :
               r \in { ApplyDiff(serverTimestamp, store, resp.diff) } })

\* sync() of the call that started _doSync: try { return await } finally { ... }
SyncReturn(c, outcome) == [c EXCEPT !.pc = outcome]

\* a continuation that catches the rejection of the syncPromise and goes on
ResumeSwallows(c, outcome, cursor) ==
    IF c.op = "writeDiff" THEN SendRequest(c, cursor)
    ELSE [c EXCEPT !.pc = "resolved"]

\* a call suspended on the syncPromise, when the promise settles: a sync() or
\* ensureInitialized() call settles as the promise did; writeDiff goes on to
\* send its request, or throws what the await threw
Resume(c, outcome, cursor) ==
    IF c.op = "writeDiff"
    THEN IF outcome = "resolved" THEN SendRequest(c, cursor)
         ELSE [c EXCEPT !.pc = "rejected"]
    ELSE [c EXCEPT !.pc = outcome]

\* the request of call i comes back as resp
Respond(i, resp) ==
    \E r \in { IF calls[i].op = "writeDiff" THEN WriteDiffApply(resp)
                ELSE DoSync(resp) } :
    LET answered == [calls[i] EXCEPT !.gw = IF resp.ok THEN "answered" ELSE "failed"]
    IN  /\ serverTimestamp' = r.serverTimestamp
        /\ store' = r.store
        /\ initialized' = r.initialized
        /\ lastSyncTime' = r.lastSyncTime
        /\ IF calls[i].op = "writeDiff"
           THEN /\ calls' = [calls EXCEPT ![i] = [answered EXCEPT !.pc = r.outcome]]
                /\ UNCHANGED syncPromise
           ELSE /\ calls' =
                     [j \in CallIds |->
                        IF j = i THEN SyncReturn(answered, r.outcome)
                        ELSE IF calls[j].pc = "awaitSync" /\ calls[j].awaits = i
                        THEN Resume(calls[j], r.outcome, r.serverTimestamp)
                        ELSE calls[j]]
                /\ syncPromise' = 0
        /\ UNCHANGED << client, now, gwClock, lastApply >>

\* the response of the gateway arrives
Deliver(i) ==
    /\ calls[i].pc = "awaitDiff"
    /\ calls[i].gw = "served"
    /\ \E arrays \in ProtocolArrays :
          Respond(i, [ok |-> TRUE,
                      diff |-> [serverTimestamp |-> calls[i].ts,
                                arrays |-> arrays, deletion |-> << >>]])

\* the gateway call fails
Fail(i) ==
    /\ calls[i].pc = "awaitDiff"
    /\ calls[i].gw \in {"sent", "served"}
    /\ Respond(i, GatewayError)

\* the first full sync of a cache, done: the state the calls
\* sync(); <response diff> leave behind when nothing else is called meanwhile
FirstSyncDone(diff) ==
    \E r \in { ApplyDiff(0, EmptyStore, diff) } :
        /\ serverTimestamp = r.serverTimestamp
        /\ store = r.store
        /\ initialized = TRUE
        /\ syncPromise = 0
        /\ lastSyncTime = now
        /\ gwClock = diff.serverTimestamp

\* a cache as constructed, or one whose first full sync is done
Init ==
    /\ now = 0
    /\ calls = NoCalls
    /\ client = NoClient
    /\ lastApply = << >>
    /\ \/ Constructed /\ gwClock = 0
       \/ \E arrays \in ProtocolArrays :
             /\ WellFormed([arrays |-> arrays, deletion |-> << >>])
             /\ FirstSyncDone([serverTimestamp |-> 1, arrays |-> arrays,
                               deletion |-> << >>])

Next ==
    \/ \E i \in CallIds : SyncCall(i)
    \/ \E i \in CallIds : EnsureCall(i)
    \/ \E i \in CallIds : WriteCall(i)
    \/ \E i \in CallIds : Serve(i)
    \/ \E i \in CallIds : Deliver(i)
    \/ \E i \in CallIds : Fail(i)
    \/ Tick

Spec == Init /\ [][Next]_vars

(***************************************************************************)
(* SpecClient: a client makes its requests one after the other; the        *)
(* gateway answers each fetch with any of Statuses or not at all, and      *)
(* authenticate() returns a token or throws.                               *)
(***************************************************************************)
ClientStep(c) ==
    /\ client' = c
    /\ UNCHANGED << cache, now, calls, gwClock, lastApply >>

\* request() is called and runs to its first suspension
Request ==
    /\ client.pc = "idle"
    /\ Len(client.log) < MaxRequests
    /\ ClientStep(ensureAuth([client EXCEPT !.log = Append(@, NewRequest)],
                             "ensureAuth", "fetch"))

\* authenticate() returns
Authenticated ==
    /\ client.pc \in {"ensureAuth", "reAuth"}
    /\ ClientStep(authenticated(client))

\* authenticate() throws
AuthenticateThrows ==
    /\ client.pc \in {"ensureAuth", "reAuth"}
    /\ ClientStep(authenticateThrew(client))

\* the response of the first fetch arrives
Response ==
    /\ client.pc = "fetch"
    /\ \E status \in Statuses : ClientStep(response(client, status))

\* the response of the second fetch arrives
RetryResponse ==
    /\ client.pc = "retry"
    /\ \E status \in Statuses : ClientStep(retryResponse(client, status))

\* fetch() throws: no response arrives
FetchThrows ==
    /\ client.pc \in {"fetch", "retry"}
    /\ ClientStep(Ended(client, "threw"))

InitClient ==
    /\ client \in Clients
    /\ Constructed
    /\ now = 0
    /\ calls = NoCalls
    /\ gwClock = 0
    /\ lastApply = << >>

NextClient ==
    \/ Request
    \/ Authenticated
    \/ AuthenticateThrows
    \/ Response
    \/ RetryResponse
    \/ FetchThrows

SpecClient == InitClient /\ [][NextClient]_vars

(***************************************************************************)
(* SpecTools: a tool handler called on a synchronized cache.  The cache    *)
(* holds two accounts in two currencies, a user, the categories Ids, one   *)
(* reminder and one transaction; the handler runs after its                *)
(* ensureInitialized() has returned.                                       *)
(*                                                                         *)
(* An optional argument, and a field that may be null, is None or          *)
(* Some(value).  Identifiers are well-formed: validateUUID, validateDate    *)
(* and validateMonth accept them.                                          *)
(***************************************************************************)
None == [has |-> FALSE]

Some(x) == [has |-> TRUE, val |-> x]

Opt(S) == {None} \cup { Some(x) : x \in S }

\* `opt ?? fallback`
OrElse(opt, fallback) == IF opt.has THEN opt.val ELSE fallback

\* '00000000-0000-0000-0000-000000000000'
ZeroUuid == -2

\* an identifier no entity of the cache has (a category, an instrument)
UnknownId == MaxId + 1

AccountIds == {"a1", "a2"}

Amounts == 0..MaxAmount

\* the amounts z.number().positive() accepts
PositiveAmounts == 1..MaxAmount

\* the instrument of an account
InstrumentOf(id) == IF id = "a1" THEN 1 ELSE 2

\* a string of the program that the model does not look into is a pair of
\* a word and a number: Text("RUB") is 'RUB', << "title", 1 >> the title of
\* category 1
Text(word) == << word, 0 >>

Account(id) ==
    [null |-> FALSE, id |-> id, user |-> "u1", instrument |-> InstrumentOf(id),
     title |-> Text(id), type |-> "checking", balance |-> 0,
     creditLimit |-> 0, savings |-> FALSE, inBalance |-> TRUE]

\* an account of a type, with a credit limit and the flags savings and
\* inBalance
AccountOfKind(id, type, creditLimit, savings, inBalance) ==
    [Account(id) EXCEPT !.type = type, !.creditLimit = creditLimit,
                        !.savings = savings, !.inBalance = inBalance]

Tag(id) == [null |-> FALSE, id |-> id, title |-> << "title", id >>]

Instrument(n) == [null |-> FALSE, id |-> n, shortTitle |-> << "cur", n >>]

Merchant(id) == [null |-> FALSE, id |-> id, title |-> Text(id)]

\* dates (yyyy-MM-dd), in the order of their strings
Dates == 0..MaxDate

\* the transactions the cache may hold under the id "tx1"
StoredTransactions ==
    [null : {FALSE}, id : {"tx1"}, deleted : {FALSE}, changed : {0},
     created : {0}, date : {1},
     outcome : Amounts, income : Amounts,
     outcomeAccount : AccountIds, incomeAccount : AccountIds,
     outcomeInstrument : {1}, incomeInstrument : {1},
     tag : {None}, merchant : {None}, payee : {None}, comment : {None}]

\* the reminder the cache holds under the id "r1"
StoredReminder ==
    [null |-> FALSE, id |-> "r1", changed |-> 0,
     outcome |-> 1, income |-> 0,
     outcomeAccount |-> "a1", incomeAccount |-> "a1",
     outcomeInstrument |-> 1, incomeInstrument |-> 1,
     tag |-> None, startDate |-> 0, endDate |-> None]

\* the maps of a synchronized cache that holds the transaction tx
ToolStore(tx) ==
    LET entries ==
            { << << "account", id >>, Account(id) >> : id \in AccountIds }
            \cup { << << "tag", id >>, Tag(id) >> : id \in Ids }
            \cup { << << "instrument", n >>, Instrument(n) >> : n \in {1, 2} }
            \cup { << << "user", "u1" >>, [null |-> FALSE, id |-> "u1"] >>,
                   << << "merchant", "m1" >>, Merchant("m1") >>,
                   << << "reminder", "r1" >>, StoredReminder >>,
                   << << "transaction", "tx1" >>, tx >> }
    IN  [key \in { e[1] : e \in entries } |->
            (CHOOSE e \in entries : e[1] = key)[2]]

\* map.get(key), for a key the map has
MapGet(m, key) == m[key]

\* Array.from(map.values()) of the map of a kind, as a set
ValuesOf(st, kind) == { st[key] : key \in { k \in DOMAIN st : k[1] = kind } }

(***************************************************************************)
(* The read tools get_transactions and get_analytics, and                   *)
(* formatTransaction, from the return of ensureInitialized() on.  A Map is  *)
(* read in the order its entities were created in; an array is a sequence.  *)
(***************************************************************************)
\* todayString(): the date of the clock
todayString(clock) == clock

\* map.get(key): the entity, or undefined
Lookup(st, kind, key) ==
    IF MapHas(st, << kind, key >>) THEN Some(st[<< kind, key >>]) ELSE None

\* what reading a property of undefined raises
TypeError == [has |-> FALSE, error |-> TRUE]

\* `entity.field`, which raises when there is no entity
FieldOfStrict(entity, field) ==
    IF entity.has THEN Some(entity.val[field]) ELSE TypeError

\* `entity?.field`: the field, or undefined when there is no entity
FieldOf(entity, field) ==
    IF entity.has THEN Some(entity.val[field]) ELSE None

\* Array.from(map.values()) of the map of a kind
RECURSIVE ArrayFrom(_)
ArrayFrom(S) ==
    IF S = {} THEN << >>
    ELSE LET first == CHOOSE x \in S : \A y \in S : x.created <= y.created
         IN  << first >> \o ArrayFrom(S \ {first})

\* array.slice(0, n)
Slice(s, n) == SubSeq(s, 1, IF n < Len(s) THEN n ELSE Len(s))

\* the array without its element i
Without(s, i) == SubSeq(s, 1, i - 1) \o SubSeq(s, i + 1, Len(s))

\* t.outcomeAccount !== t.incomeAccount && t.outcome > 0 && t.income > 0
IsTransfer(t) ==
    t.outcomeAccount # t.incomeAccount /\ t.outcome > 0 /\ t.income > 0

\* get_transactions: the callback of the type filter
TransactionsTypeFilter(t, type) ==
    LET isTransfer == IsTransfer(t)
        isExpense == t.outcome > 0 /\ ~isTransfer
        isIncome == t.income > 0 /\ ~isTransfer
    IN  CASE type = "transfer" -> isTransfer
          [] type = "expense" -> isExpense
          [] type = "income" -> isIncome
          [] OTHER -> FALSE

\* a type filter that tests one amount only, and so lets transfers through
AnalyticsTypeFilterByAmount(t, type) ==
    CASE type = "expense" -> t.outcome > 0
      [] type = "income" -> t.income > 0
      [] OTHER -> t.outcome > 0 \/ t.income > 0

\* get_analytics: the callback of the type filter
AnalyticsTypeFilter(t, type) ==
    LET isTransfer == IsTransfer(t)
        isExpense == t.outcome > 0 /\ t.income = 0 /\ ~isTransfer
        isIncome == t.income > 0 /\ t.outcome = 0 /\ ~isTransfer
    IN  CASE type = "expense" -> isExpense
          [] type = "income" -> isIncome
          [] OTHER -> isExpense \/ isIncome

\* tx.tag?.map(id => tags.get(id)?.title) ?? []
CategoryTitles(st, tag) ==
    IF tag.has
    THEN [i \in 1..Len(tag.val) |-> FieldOf(Lookup(st, "tag", tag.val[i]), "title")]
    ELSE << >>

\* .filter(Boolean), of an array of titles and undefined
RECURSIVE FilterBoolean(_)
FilterBoolean(titles) ==
    IF titles = << >> THEN << >>
    ELSE (IF Head(titles).has THEN << Head(titles).val >> ELSE << >>)
         \o FilterBoolean(Tail(titles))

\* formatTransaction: the record it returns; a key it does not set is None,
\* `categories` without titles is not set; error: a lookup raised
FormatTransaction(tx, st) ==
    LET outcomeAccount == Lookup(st, "account", tx.outcomeAccount)
        incomeAccount == Lookup(st, "account", tx.incomeAccount)
        outCurrency == FieldOf(Lookup(st, "instrument", tx.outcomeInstrument),
                               "shortTitle")
        inCurrency == FieldOf(Lookup(st, "instrument", tx.incomeInstrument),
                              "shortTitle")
        fromTitle == FieldOf(outcomeAccount, "title")
        toTitle == FieldOf(incomeAccount, "title")
        isTransfer == IsTransfer(tx)
        isExpense == tx.outcome > 0 /\ ~isTransfer
        isIncome == tx.income > 0 /\ ~isTransfer
        both == ~isExpense /\ ~isIncome
        titles == CategoryTitles(st, tx.tag)
        merchant == IF tx.merchant.has
                    THEN FieldOf(Lookup(st, "merchant", tx.merchant.val), "title")
                    ELSE None
    IN  [id |-> tx.id,
         date |-> tx.date,
         type |-> IF isTransfer THEN "transfer"
                  ELSE IF isExpense THEN "expense" ELSE "income",
         amount |-> IF isExpense THEN Some(tx.outcome)
                    ELSE IF isIncome THEN Some(tx.income) ELSE None,
         currency |-> IF isExpense THEN outCurrency
                      ELSE IF isIncome THEN inCurrency ELSE None,
         account |-> IF isExpense THEN fromTitle
                     ELSE IF isIncome THEN toTitle ELSE None,
         outcomeAmount |-> IF both THEN Some(tx.outcome) ELSE None,
         outcomeCurrency |-> IF both THEN outCurrency ELSE None,
         fromAccount |-> IF both THEN fromTitle ELSE None,
         incomeAmount |-> IF both THEN Some(tx.income) ELSE None,
         incomeCurrency |-> IF both THEN inCurrency ELSE None,
         toAccount |-> IF both THEN toTitle ELSE None,
         categories |-> FilterBoolean(titles),
         merchant |-> merchant,
         payee |-> tx.payee,
         comment |-> tx.comment,
         deleted |-> tx.deleted,
         error |-> TypeError \in { outCurrency, inCurrency, fromTitle, toTitle,
                                   merchant }
                                 \cup { titles[i] : i \in 1..Len(titles) }]

\* a selection that leaves out the two bounds of the period
InPeriodExclusive(st, start_date, effectiveEndDate) ==
    LET live(t) == ~t.deleted
        dated(t) == t.date > start_date /\ t.date < effectiveEndDate
    IN  SelectSeq(SelectSeq(ArrayFrom(ValuesOf(st, "transaction")), live), dated)

\* the transactions that are not deleted and are dated from start_date to
\* the end date, in the order of the Map
InPeriod(st, start_date, effectiveEndDate) ==
    LET live(t) == ~t.deleted
        dated(t) == t.date >= start_date /\ t.date <= effectiveEndDate
    IN  SelectSeq(SelectSeq(ArrayFrom(ValuesOf(st, "transaction")), live), dated)

\* transactions.sort((a, b) => b.date.localeCompare(a.date)
\*                             || b.created - a.created)
RECURSIVE SortByDateDesc(_)
SortByDateDesc(s) ==
    IF s = << >> THEN << >>
    ELSE LET before(a, b) == \/ a.date > b.date
                             \/ a.date = b.date /\ a.created > b.created
             first == CHOOSE i \in 1..Len(s) :
                         /\ \A j \in 1..Len(s) : ~before(s[j], s[i])
                         /\ \A j \in 1..(i - 1) : before(s[i], s[j])
         IN  << s[first] >> \o SortByDateDesc(Without(s, first))

\* get_transactions: what the handler returns, or that it threw
get_transactions(st, a, clock) ==
    LET effectiveLimit == IF a.limit < 500 THEN a.limit ELSE 500
        effectiveEndDate == OrElse(a.end_date, todayString(clock))
        ofAccount(t) == a.account_id.has =>
                            \/ t.incomeAccount = a.account_id.val
                            \/ t.outcomeAccount = a.account_id.val
        ofCategory(t) == a.category_id.has =>
                            /\ t.tag.has
                            /\ \E i \in 1..Len(t.tag.val) :
                                   t.tag.val[i] = a.category_id.val
        ofType(t) == a.type.has => TransactionsTypeFilter(t, a.type.val)
        transactions ==
            SortByDateDesc(
                SelectSeq(SelectSeq(SelectSeq(
                    InPeriod(st, a.start_date, effectiveEndDate),
                    ofAccount), ofCategory), ofType))
        limited == Slice(transactions, effectiveLimit)
        formatted == [i \in 1..Len(limited) |-> FormatTransaction(limited[i], st)]
        truncated == Len(transactions) > effectiveLimit
    IN  IF \E i \in 1..Len(formatted) : formatted[i].error
        THEN [threw |-> TRUE]
        ELSE [threw |-> FALSE,
              transactions |-> formatted,
              truncated |-> truncated,
              total |-> IF truncated THEN Some(Len(transactions)) ELSE None]

\* get_analytics: the title looked up for the key of the group of a
\* transaction (firstTag?.title, account?.title, merchant?.title), when the
\* loop looks one up
GroupTitle(st, a, tx) ==
    CASE a.group_by = "category" ->
             IF tx.tag.has /\ tx.tag.val # << >>
             THEN FieldOf(Lookup(st, "tag", tx.tag.val[1]), "title")
             ELSE None
      [] a.group_by = "account" ->
             FieldOf(Lookup(st, "account",
                            IF a.type = "income" THEN tx.incomeAccount
                            ELSE tx.outcomeAccount), "title")
      [] OTHER ->
             IF tx.merchant.has
             THEN FieldOf(Lookup(st, "merchant", tx.merchant.val), "title")
             ELSE None

\* get_analytics: the key of the group of a transaction
GroupKey(st, a, tx) ==
    OrElse(GroupTitle(st, a, tx),
           CASE a.group_by = "category" -> Text("Uncategorized")
             [] a.group_by = "account" -> Text("Unknown Account")
             [] OTHER -> IF tx.merchant.has
                         THEN OrElse(tx.payee, Text("Unknown Merchant"))
                         ELSE OrElse(tx.payee, Text("Uncategorized")))

\* get_analytics: instrument?.shortTitle of the account of a transaction
GroupInstrument(st, a, tx) ==
    LET accountId == IF a.group_by = "account"
                     THEN (IF a.type = "income" THEN tx.incomeAccount
                           ELSE tx.outcomeAccount)
                     ELSE (IF tx.outcome > 0 THEN tx.outcomeAccount
                           ELSE tx.incomeAccount)
        account == Lookup(st, "account", accountId)
        instrument == IF account.has
                      THEN Lookup(st, "instrument", account.val.instrument)
                      ELSE None
    IN  FieldOf(instrument, "shortTitle")

\* get_analytics: the currency of the group a transaction opens
GroupCurrency(st, a, tx) == OrElse(GroupInstrument(st, a, tx), Text("RUB"))

\* get_analytics: the groups after the loop over the transactions txs, from
\* the groups so far
RECURSIVE GroupAndAggregate(_, _, _, _)
GroupAndAggregate(st, a, txs, groups) ==
    IF txs = << >> THEN groups
    ELSE LET tx == Head(txs)
             key == GroupKey(st, a, tx)
             opened == IF \E i \in 1..Len(groups) : groups[i].name = key
                       THEN groups
                       ELSE Append(groups,
                                   [name |-> key, income |-> 0, outcome |-> 0,
                                    count |-> 0,
                                    currency |-> GroupCurrency(st, a, tx)])
             added == [i \in 1..Len(opened) |->
                          IF opened[i].name = key
                          THEN [opened[i] EXCEPT !.income = @ + tx.income,
                                                 !.outcome = @ + tx.outcome,
                                                 !.count = @ + 1]
                          ELSE opened[i]]
         IN  GroupAndAggregate(st, a, Tail(txs), added)

\* the total of a group for the type
GroupTotal(group, type) ==
    CASE type = "expense" -> group.outcome
      [] type = "income" -> group.income
      [] OTHER -> group.income + group.outcome

\* grandTotal: the sum of the totals of the groups
RECURSIVE GrandTotal(_, _)
GrandTotal(groups, type) ==
    IF groups = << >> THEN 0
    ELSE GroupTotal(Head(groups), type) + GrandTotal(Tail(groups), type)

\* .sort((a, b) => b.total - a.total)
RECURSIVE SortByTotalDesc(_)
SortByTotalDesc(s) ==
    IF s = << >> THEN << >>
    ELSE LET first == CHOOSE i \in 1..Len(s) :
                         /\ \A j \in 1..Len(s) : s[j].total <= s[i].total
                         /\ \A j \in 1..(i - 1) : s[j].total < s[i].total
         IN  << s[first] >> \o SortByTotalDesc(Without(s, first))

\* get_analytics: what the handler returns
get_analytics(st, a, clock) ==
    LET effectiveEndDate == OrElse(a.end_date, todayString(clock))
        ofType(t) == AnalyticsTypeFilter(t, a.type)
        filteredTransactions ==
            SelectSeq(InPeriod(st, a.start_date, effectiveEndDate), ofType)
        groups == GroupAndAggregate(st, a, filteredTransactions, << >>)
    IN  IF \E i \in 1..Len(filteredTransactions) :
              TypeError \in { GroupTitle(st, a, filteredTransactions[i]),
                              GroupInstrument(st, a, filteredTransactions[i]) }
        THEN [threw |-> TRUE]
        ELSE
        [threw |-> FALSE,
         grandTotal |-> GrandTotal(groups, a.type),
         transactionCount |-> Len(filteredTransactions),
         groups |-> SortByTotalDesc(
                        [i \in 1..Len(groups) |->
                            [name |-> groups[i].name,
                             total |-> GroupTotal(groups[i], a.type),
                             count |-> groups[i].count,
                             currency |-> groups[i].currency,
                             income |-> IF a.type = "all"
                                        THEN Some(groups[i].income) ELSE None,
                             outcome |-> IF a.type = "all"
                                         THEN Some(groups[i].outcome) ELSE None]])]

(***************************************************************************)
(* The write tools, from the return of ensureInitialized() to the call of  *)
(* writeDiff: a handler throws, or hands writeDiff the changes it built.   *)
(* nowSec is Math.floor(Date.now() / 1000).                                *)
(***************************************************************************)
Throw == [threw |-> TRUE, changes |-> None]

\* cache.writeDiff({ [kind]: [e] })
Write(kind, e) ==
    [threw |-> FALSE,
     changes |-> Some([arrays |-> [k \in {kind} |-> << e >>],
                       deletion |-> << >>])]

\* every id of an optional list is a category of the cache
AllCategoriesKnown(st, category_ids) ==
    category_ids.has =>
        \A i \in 1..Len(category_ids.val) :
            MapHas(st, << "tag", category_ids.val[i] >>)

create_transaction(st, a, nowSec) ==
    IF a.type = "transfer" /\ ~a.to_account_id.has THEN Throw
    ELSE IF ~MapHas(st, << "account", a.account_id >>) THEN Throw
    ELSE IF ValuesOf(st, "user") = {} THEN Throw
    ELSE
    LET account == MapGet(st, << "account", a.account_id >>)
        instrumentId == OrElse(a.currency_id, account.instrument)
        tx == [null |-> FALSE, id |-> "txNew", deleted |-> FALSE,
               changed |-> nowSec,
               created |-> nowSec,
               date |-> todayString(nowSec),
               merchant |-> None, payee |-> None, comment |-> None,
               incomeInstrument |-> instrumentId,
               incomeAccount |-> a.account_id,
               income |-> 0,
               outcomeInstrument |-> instrumentId,
               outcomeAccount |-> a.account_id,
               outcome |-> 0,
               tag |-> a.category_ids]
    IN  CASE a.type = "expense" -> Write("transaction", [tx EXCEPT !.outcome = a.amount])
          [] a.type = "income" -> Write("transaction", [tx EXCEPT !.income = a.amount])
          [] OTHER ->
               IF ~MapHas(st, << "account", a.to_account_id.val >>) THEN Throw
               ELSE LET toAccount == MapGet(st, << "account", a.to_account_id.val >>)
                        transfer == [tx EXCEPT !.outcome = a.amount,
                                               !.outcomeInstrument = account.instrument,
                                               !.incomeAccount = a.to_account_id.val,
                                               !.incomeInstrument = toAccount.instrument]
                    IN  IF account.instrument # toAccount.instrument
                        THEN IF ~a.income_amount.has THEN Throw
                             ELSE Write("transaction",
                                        [transfer EXCEPT !.income = a.income_amount.val])
                        ELSE Write("transaction", [transfer EXCEPT !.income = a.amount])

\* an update that writes the new amount to outcome whatever the type
update_transaction_to_outcome(st, a, nowSec) ==
    IF ~MapHas(st, << "transaction", a.id >>) THEN Throw
    ELSE LET existing == MapGet(st, << "transaction", a.id >>)
         IN  Write("transaction",
                   [existing EXCEPT !.changed = nowSec,
                                    !.outcome = IF a.amount.has
                                                THEN a.amount.val ELSE @])

update_transaction(st, a, nowSec) ==
    IF ~MapHas(st, << "transaction", a.id >>) THEN Throw
    ELSE
    LET existing == MapGet(st, << "transaction", a.id >>)
        updated == [existing EXCEPT !.changed = nowSec]
        amended ==
            IF ~a.amount.has THEN updated
            ELSE IF IsTransfer(existing)
                 THEN [updated EXCEPT !.outcome = a.amount.val, !.income = a.amount.val]
            ELSE IF existing.outcome > 0
                 THEN [updated EXCEPT !.outcome = a.amount.val]
            ELSE [updated EXCEPT !.income = a.amount.val]
        withTag == IF a.category_ids.has
                   THEN [amended EXCEPT !.tag = a.category_ids] ELSE amended
        withDate == IF a.date.has
                    THEN [withTag EXCEPT !.date = a.date.val] ELSE withTag
        withPayee == IF a.payee.has
                     THEN [withDate EXCEPT !.payee = a.payee] ELSE withDate
    IN  Write("transaction",
              IF a.comment.has
              THEN [withPayee EXCEPT !.comment = a.comment] ELSE withPayee)

\* a delete_transaction that asks the gateway to remove the transaction
delete_transaction_hard(st, a, nowSec) ==
    IF ~MapHas(st, << "transaction", a.id >>) THEN Throw
    ELSE [threw |-> FALSE,
          changes |-> Some([arrays |-> EmptyMap,
                            deletion |-> << [null |-> FALSE,
                                             object |-> "transaction",
                                             id |-> a.id] >>])]

delete_transaction(st, a, nowSec) ==
    IF ~MapHas(st, << "transaction", a.id >>) THEN Throw
    ELSE LET existing == MapGet(st, << "transaction", a.id >>)
         IN  Write("transaction",
                   [existing EXCEPT !.deleted = TRUE, !.changed = nowSec])

create_reminder(st, a, nowSec) ==
    IF a.type = "transfer" /\ ~a.to_account_id.has THEN Throw
    ELSE IF ~MapHas(st, << "account", a.account_id >>) THEN Throw
    ELSE IF a.to_account_id.has /\ ~MapHas(st, << "account", a.to_account_id.val >>)
         THEN Throw
    ELSE IF ~AllCategoriesKnown(st, a.category_ids) THEN Throw
    ELSE
    LET account == MapGet(st, << "account", a.account_id >>)
        toInstrument == IF a.to_account_id.has
                        THEN MapGet(st, << "account", a.to_account_id.val >>).instrument
                        ELSE account.instrument
    IN  Write("reminder",
              [null |-> FALSE, id |-> "rNew", changed |-> nowSec,
               incomeInstrument |-> IF a.type = "income" THEN account.instrument
                                    ELSE toInstrument,
               incomeAccount |-> IF a.type = "income" THEN a.account_id
                                 ELSE OrElse(a.to_account_id, a.account_id),
               income |-> IF a.type = "expense" THEN 0 ELSE a.amount,
               outcomeInstrument |-> account.instrument,
               outcomeAccount |-> a.account_id,
               outcome |-> IF a.type = "income" THEN 0 ELSE a.amount,
               tag |-> a.category_ids,
               startDate |-> todayString(nowSec),
               endDate |-> None])

update_reminder(st, a, nowSec) ==
    IF ~MapHas(st, << "reminder", a.id >>) THEN Throw
    ELSE IF ~AllCategoriesKnown(st, a.category_ids) THEN Throw
    ELSE
    LET existing == MapGet(st, << "reminder", a.id >>)
        updated == [existing EXCEPT !.changed = nowSec]
        isIncome == existing.income > 0 /\ existing.outcome = 0
        isExpense == existing.outcome > 0 /\ existing.income = 0
        amended ==
            IF ~a.amount.has THEN updated
            ELSE IF isIncome THEN [updated EXCEPT !.income = a.amount.val]
            ELSE IF isExpense THEN [updated EXCEPT !.outcome = a.amount.val]
            ELSE [updated EXCEPT !.income = a.amount.val, !.outcome = a.amount.val]
    IN  Write("reminder",
              IF a.category_ids.has
              THEN [amended EXCEPT !.tag = a.category_ids] ELSE amended)

\* '2000-01-01', as a reading of the clock
Date2000 == 0

delete_reminder(st, a, nowSec) ==
    IF ~MapHas(st, << "reminder", a.id >>) THEN Throw
    ELSE LET existing == MapGet(st, << "reminder", a.id >>)
         IN  Write("reminder",
                   [existing EXCEPT !.changed = nowSec, !.endDate = Some(Date2000)])

create_account(st, a, nowSec) ==
    IF ValuesOf(st, "user") = {} THEN Throw
    ELSE IF ~MapHas(st, << "instrument", a.currency_id >>) THEN Throw
    ELSE Write("account",
               [null |-> FALSE, id |-> "aNew", user |-> "u1",
                instrument |-> a.currency_id])

(***************************************************************************)
(* The budget tools.  A category argument is the string 'ALL' (in any      *)
(* case), the id of a category or a title; a month yyyy-MM is a number,    *)
(* and the date `${month}-01` the pair of the month and the day 1.         *)
(***************************************************************************)
\* findCategoryId: the id, or None when it throws
findCategoryId(st, category) ==
    IF category.form = "ALL" THEN Some(ZeroUuid)
    ELSE IF category.form = "id" /\ MapHas(st, << "tag", category.text >>)
         THEN Some(category.text)
    ELSE LET found == { t \in ValuesOf(st, "tag") :
                          category.form = "title" /\ t.title = category.text }
         IN  IF found = {} THEN None
             ELSE Some((CHOOSE t \in found : TRUE).id)

\* `${month}-01`
MonthDate(month) == << month, 1 >>

\* a budget key built from the category id as it is
RawBudgetKey(categoryId, monthDate) == << categoryId, monthDate >>

\* `${categoryId === '0000...' ? 'null' : categoryId}:${monthDate}`
ToolBudgetKey(categoryId, monthDate) ==
    << IF categoryId = ZeroUuid THEN NullString ELSE categoryId, monthDate >>

create_budget(st, a, nowSec) ==
    IF ValuesOf(st, "account") = {} THEN Throw
    ELSE LET categoryId == findCategoryId(st, a.category)
         IN  IF ~categoryId.has THEN Throw
             ELSE Write("budget",
                        [null |-> FALSE, user |-> "u1", changed |-> nowSec,
                         tag |-> IF categoryId.val = ZeroUuid THEN NullTag
                                 ELSE categoryId.val,
                         date |-> MonthDate(a.month),
                         income |-> OrElse(a.income, 0),
                         outcome |-> OrElse(a.outcome, 0)])

update_budget(st, a, nowSec) ==
    LET categoryId == findCategoryId(st, a.category)
    IN  IF ~categoryId.has THEN Throw
        ELSE LET budgetKey == ToolBudgetKey(categoryId.val, MonthDate(a.month))
             IN  IF ~MapHas(st, << "budget", budgetKey >>) THEN Throw
                 ELSE LET existing == MapGet(st, << "budget", budgetKey >>)
                      IN  Write("budget",
                                [existing EXCEPT
                                    !.changed = nowSec,
                                    !.income = OrElse(a.income, existing.income),
                                    !.outcome = OrElse(a.outcome, existing.outcome)])

delete_budget(st, a, nowSec) ==
    LET categoryId == findCategoryId(st, a.category)
    IN  IF ~categoryId.has THEN Throw
        ELSE LET budgetKey == ToolBudgetKey(categoryId.val, MonthDate(a.month))
             IN  IF ~MapHas(st, << "budget", budgetKey >>) THEN Throw
                 ELSE LET existing == MapGet(st, << "budget", budgetKey >>)
                      IN  Write("budget",
                                [existing EXCEPT !.changed = nowSec,
                                                 !.income = 0, !.outcome = 0])

(***************************************************************************)
(* The transfer classifier, classify_transfer(item, mode_config), and the  *)
(* subtype of an account it reads.  The result is a pair of a direction    *)
(* and an amount, or None: "not counted".  A comment is a sequence of      *)
(* letters, some of them capitals.                                         *)
(***************************************************************************)
\* the amount of the transfer of the classification scenarios
ScenarioTransfer == 5000

\* the lower-case letter of a letter
LowerOf(c) ==
    CASE c = "K" -> "k"
      [] c = "R" -> "r"
      [] OTHER -> c

\* text.lower()
Lower(text) == [i \in 1..Len(text) |-> LowerOf(text[i])]

\* the text holds the word: `word in text`
Holds(text, word) ==
    \E i \in 1..(Len(text) - Len(word) + 1) :
        SubSeq(text, i, i + Len(word) - 1) = word

\* the comment holds a keyword, whatever the case of its letters
ContainsKeyword(comment, keywords) ==
    /\ comment.has
    /\ \E k \in keywords : Holds(Lower(comment.val), Lower(k))

\* a subtype that does not look at the credit limit of a card
AccountSubtypeOfType(account) ==
    CASE account.type = "ccard" -> "debit"
      [] account.type = "checking" ->
            IF account.savings THEN "savings" ELSE "checking"
      [] account.type = "debt" -> "debt"
      [] OTHER -> "cash"

\* the subtype of an account: a function of its type, of creditLimit > 0 and
\* of its savings flag
AccountSubtype(account) ==
    CASE account.type = "ccard" ->
            IF account.creditLimit > 0 THEN "credit" ELSE "debit"
      [] account.type = "checking" ->
            IF account.savings THEN "savings" ELSE "checking"
      [] account.type = "debt" -> "debt"
      [] OTHER -> "cash"

\* the metadata of an account the classifier is given: subtype and inBalance
AccountMeta(account) ==
    IF account.has
    THEN Some([subtype |-> AccountSubtype(account.val),
               inBalance |-> account.val.inBalance])
    ELSE None

\* the item the classifier is given for a transaction of the store
TransferItem(st, tx) ==
    [outcome |-> tx.outcome, income |-> tx.income,
     outcomeAccount |-> tx.outcomeAccount, incomeAccount |-> tx.incomeAccount,
     comment |-> tx.comment,
     from |-> AccountMeta(Lookup(st, "account", tx.outcomeAccount)),
     to |-> AccountMeta(Lookup(st, "account", tx.incomeAccount))]

\* the flag of the mode that counts movements to the destination
DestinationFlag(to, mode_config) ==
    CASE to.subtype = "credit" -> mode_config.countCreditRepayments
      [] to.subtype = "savings" -> mode_config.countSavingsMovements
      [] to.subtype = "debt" -> mode_config.countDebtMovements
      [] to.subtype \in {"debit", "checking"} /\ ~to.inBalance ->
            mode_config.countOffBalanceMovements
      [] OTHER -> FALSE

\* the contribution of a transfer: a direction and the whole amount
Contribution(direction, amount) ==
    Some([direction |-> direction, amount |-> amount])

\* a classifier that, without countAllMovements, tests the keywords only
classify_transfer_any_destination(item, mode_config) ==
    IF ~IsTransfer(item) \/ ~item.to.has \/ ~item.from.has THEN None
    ELSE IF mode_config.countAllMovements
         THEN IF item.to.val.subtype = "credit"
                \/ DestinationFlag(item.to.val, mode_config)
              THEN Contribution("outcome", item.outcome)
              ELSE None
         ELSE IF mode_config.keywords.has =>
                    ContainsKeyword(item.comment, mode_config.keywords.val)
              THEN Contribution("outcome", item.outcome)
              ELSE None

\* classify_transfer(item, mode_config): what is not a transfer is left to
\* the expense and income path; a transfer without the metadata of an
\* account is not counted; with countAllMovements the subtype of the
\* destination decides, else subtype and keywords do
classify_transfer(item, mode_config) ==
    IF ~IsTransfer(item) \/ ~item.to.has \/ ~item.from.has THEN None
    ELSE IF mode_config.countAllMovements
         THEN IF item.to.val.subtype = "credit"
                \/ DestinationFlag(item.to.val, mode_config)
              THEN Contribution("outcome", item.outcome)
              ELSE None
         ELSE IF /\ item.to.val.subtype \in {"credit", "debt"}
                 /\ mode_config.keywords.has =>
                        ContainsKeyword(item.comment, mode_config.keywords.val)
              THEN Contribution("outcome", item.outcome)
              ELSE None

\* the classification of the transaction "tx1" of the store
classify_stored(st, mode_config) ==
    [threw |-> FALSE,
     item |-> TransferItem(st, MapGet(st, << "transaction", "tx1" >>)),
     classified |->
        classify_transfer(
            TransferItem(st, MapGet(st, << "transaction", "tx1" >>)),
            mode_config)]

(***************************************************************************)
(* The marker mode of get_reminders: the reminders that have markers in a  *)
(* period, with the count and the sums of those markers.  The listing is   *)
(* held as a set: its order is not modelled.                               *)
(***************************************************************************)
\* the amount of one marker of the marker mode scenario
ScenarioMarker == 10000

MarkerStates == {"planned", "processed", "deleted"}

\* a marker of a reminder; `created` is its place in the Map
Marker(id, reminder, date, state, outcome, income, created) ==
    [null |-> FALSE, id |-> id, changed |-> 0, created |-> created,
     reminder |-> reminder, date |-> date, state |-> state,
     outcome |-> outcome, income |-> income,
     outcomeAccount |-> "a1", incomeAccount |-> "a1", comment |-> None]

\* the type of a reminder, by the rule of the type of a transaction
ReminderTypeOf(r) ==
    IF IsTransfer(r) THEN "transfer"
    ELSE IF r.outcome > 0 THEN "expense" ELSE "income"

\* m.reminder === r.id
MarkerOfReminder(m, r) == m.reminder = r.id

\* include_processed || m.state === 'planned'
MarkerStateFilter(m, include_processed) ==
    include_processed \/ m.state = "planned"

\* a period without its two bounds
MarkerInPeriodExclusive(m, marker_from, marker_to) ==
    marker_from < m.date /\ m.date < marker_to

\* the marker is dated from marker_from to marker_to, the two included
MarkerInPeriod(m, marker_from, marker_to) ==
    marker_from <= m.date /\ m.date <= marker_to

\* the array sorted by date, the earliest first; equal dates keep their order
RECURSIVE SortByDateAsc(_)
SortByDateAsc(s) ==
    IF s = << >> THEN << >>
    ELSE LET first == CHOOSE i \in 1..Len(s) :
                          /\ \A j \in 1..Len(s) : s[i].date <= s[j].date
                          /\ \A j \in 1..(i - 1) : s[j].date > s[i].date
         IN  << s[first] >> \o SortByDateAsc(Without(s, first))

\* the markers of the reminder that pass the filters, sorted by date
MarkersInPeriod(st, r, a) ==
    LET ofReminder(m) == MarkerOfReminder(m, r)
        inState(m) == MarkerStateFilter(m, a.include_processed)
        inPeriod(m) == MarkerInPeriod(m, a.marker_from, a.marker_to)
    IN  SortByDateAsc(
            SelectSeq(SelectSeq(SelectSeq(
                ArrayFrom(ValuesOf(st, "reminderMarker")),
                ofReminder), inState), inPeriod))

\* the sum of an amount of the markers
RECURSIVE SumOf(_, _)
SumOf(markers, field) ==
    IF markers = << >> THEN 0
    ELSE Head(markers)[field] + SumOf(Tail(markers), field)

\* a listing that reports the amounts of the reminder for the markers
FormatMarkedReminderByTemplate(r, markers) ==
    [id |-> r.id, type |-> ReminderTypeOf(r),
     outcome |-> r.outcome, income |-> r.income,
     markers_count |-> Len(markers),
     markers_total_outcome |-> r.outcome,
     markers_total_income |-> r.income,
     markers |-> [i \in 1..Len(markers) |->
                     [id |-> markers[i].id, date |-> markers[i].date,
                      state |-> markers[i].state,
                      income |-> markers[i].income,
                      outcome |-> markers[i].outcome]]]

\* the entry of a reminder in the listing, with the rollups of its markers
FormatMarkedReminder(r, markers) ==
    [id |-> r.id, type |-> ReminderTypeOf(r),
     outcome |-> r.outcome, income |-> r.income,
     markers_count |-> Len(markers),
     markers_total_outcome |-> SumOf(markers, "outcome"),
     markers_total_income |-> SumOf(markers, "income"),
     markers |-> [i \in 1..Len(markers) |->
                     [id |-> markers[i].id, date |-> markers[i].date,
                      state |-> markers[i].state,
                      income |-> markers[i].income,
                      outcome |-> markers[i].outcome]]]

\* get_reminders with marker_from and marker_to: the reminders of the type
\* asked for that have a marker in the period
get_reminders_by_markers(st, a) ==
    [threw |-> FALSE,
     reminders |->
        { FormatMarkedReminder(r, MarkersInPeriod(st, r, a)) :
            r \in { x \in ValuesOf(st, "reminder") :
                      /\ a.type \in {"all", ReminderTypeOf(x)}
                      /\ MarkersInPeriod(st, x, a) # << >> } }]

(***************************************************************************)
(* The budget forecast, analyze_budget_detailed, for a billing period and  *)
(* a mode: the actual and the planned totals, the calendar and the balance *)
(* at the end of each day.  Amounts are whole units, the projection is the *)
(* one before rounding; the budget rows of the categories without a        *)
(* reminder enter neither the calendar nor the balance and are left out.   *)
(***************************************************************************)
\* the amounts of the forecast scenario
ScenarioBalance == 50000

ScenarioActual == 3000

ScenarioPlanned == 12000

\* the days of the scenario, counted from the first day of the period,
\* 2026-02-20: the actual transaction is of 02-21, the marker of 02-25
ScenarioActualDay == 1

ScenarioPlannedDay == 5

\* the signed amount of a transaction or a marker: an expense is negative,
\* an income positive, a transfer as the classifier says, anything else 0
SignedAmount(st, item, mode_config) ==
    IF item.outcome > 0 /\ item.income = 0 THEN 0 - item.outcome
    ELSE IF item.income > 0 /\ item.outcome = 0 THEN item.income
    ELSE LET classified == classify_transfer(TransferItem(st, item), mode_config)
         IN  IF ~classified.has THEN 0
             ELSE IF classified.val.direction = "outcome"
                  THEN 0 - classified.val.amount
                  ELSE classified.val.amount

\* an entry of the calendar
CalendarEntry(st, item, kind, mode_config) ==
    [date |-> item.date, kind |-> kind, id |-> item.id,
     amount |-> SignedAmount(st, item, mode_config)]

\* the transactions of the period that are not deleted, as entries
ActualEntries(st, a) ==
    LET txs == InPeriod(st, a.start_date, a.end_date)
    IN  [i \in 1..Len(txs) |-> CalendarEntry(st, txs[i], "actual", a.mode_config)]

\* a selection of markers that takes the processed ones too
ForecastMarkersWithProcessed(st, a) ==
    LET inState(m) == MarkerStateFilter(m, TRUE)
        inPeriod(m) == MarkerInPeriod(m, a.start_date, a.end_date)
    IN  SelectSeq(SelectSeq(ArrayFrom(ValuesOf(st, "reminderMarker")), inState),
                  inPeriod)

\* the markers of the period in state planned
ForecastMarkers(st, a) ==
    LET inState(m) == MarkerStateFilter(m, FALSE)
        inPeriod(m) == MarkerInPeriod(m, a.start_date, a.end_date)
    IN  SelectSeq(SelectSeq(ArrayFrom(ValuesOf(st, "reminderMarker")), inState),
                  inPeriod)

\* the planned markers of the period, as entries
PlannedEntries(st, a) ==
    LET markers == ForecastMarkers(st, a)
    IN  [i \in 1..Len(markers) |->
            CalendarEntry(st, markers[i], "planned", a.mode_config)]

\* the sum of the expenses, or of the incomes, of the entries
RECURSIVE TotalOf(_, _)
TotalOf(entries, direction) ==
    IF entries = << >> THEN 0
    ELSE (IF direction = "outcome" /\ Head(entries).amount < 0
          THEN 0 - Head(entries).amount
          ELSE IF direction = "income" /\ Head(entries).amount > 0
               THEN Head(entries).amount
               ELSE 0)
         + TotalOf(Tail(entries), direction)

\* the balances of the accounts of the balance, at the start of the period
StartBalance(st) ==
    LET accounts == { x \in ValuesOf(st, "account") : x.inBalance }
        RECURSIVE Sum(_)
        Sum(S) == IF S = {} THEN 0
                  ELSE LET x == CHOOSE y \in S : TRUE
                       IN  x.balance + Sum(S \ {x})
    IN  Sum(accounts)

\* a walk that stops before the entries of the day
RunningBalanceBefore(calendar, balance, day) ==
    LET RECURSIVE Walk(_, _)
        Walk(entries, b) ==
            IF entries = << >> \/ Head(entries).date >= day THEN b
            ELSE Walk(Tail(entries), b + Head(entries).amount)
    IN  Walk(calendar, balance)

\* the walk of the calendar, in the order of its dates, from the balance at
\* the start to the end of the day
RunningBalance(calendar, balance, day) ==
    LET RECURSIVE Walk(_, _)
        Walk(entries, b) ==
            IF entries = << >> \/ Head(entries).date > day THEN b
            ELSE Walk(Tail(entries), b + Head(entries).amount)
    IN  Walk(calendar, balance)

\* analyze_budget_detailed: the report of the period
analyze_budget_detailed(st, a) ==
    LET actual == ActualEntries(st, a)
        planned == PlannedEntries(st, a)
        calendar == SortByDateAsc(actual \o planned)
    IN  [threw |-> FALSE,
         actual_outcome |-> TotalOf(actual, "outcome"),
         actual_income |-> TotalOf(actual, "income"),
         planned_outcome |-> TotalOf(planned, "outcome"),
         planned_income |-> TotalOf(planned, "income"),
         calendar |-> calendar,
         balance |-> [day \in a.start_date..a.end_date |->
                         RunningBalance(calendar, StartBalance(st), day)]]

(***************************************************************************)
(* get_reminders of the server: the reminders, the latest startDate first, *)
(* each with its markers.                                                  *)
(***************************************************************************)
\* the order in which the Map of reminders holds its entries
ReminderOrder == << "r1", "r2", "rNew" >>

\* Array.from(cache.reminders.values())
ReminderArray(st) ==
    LET held(id) == MapHas(st, << "reminder", id >>)
        ids == SelectSeq(ReminderOrder, held)
    IN  [i \in 1..Len(ids) |-> MapGet(st, << "reminder", ids[i] >>)]

\* a filter that takes every reminder for an active one
IsActiveWhateverEndDate(r, todayStr) == TRUE

\* !r.endDate || r.endDate >= todayStr
IsActive(r, todayStr) == ~r.endDate.has \/ r.endDate.val >= todayStr

\* the array sorted by startDate, the latest first; equal dates keep their
\* order
RECURSIVE SortByStartDateDesc(_)
SortByStartDateDesc(s) ==
    IF s = << >> THEN << >>
    ELSE LET first == CHOOSE i \in 1..Len(s) :
                          /\ \A j \in 1..Len(s) : s[i].startDate >= s[j].startDate
                          /\ \A j \in 1..(i - 1) : s[j].startDate < s[i].startDate
         IN  << s[first] >> \o SortByStartDateDesc(Without(s, first))

\* `amount || undefined`
OrUndefined(amount) == IF amount = 0 THEN None ELSE Some(amount)

\* formatReminder: the record it returns; a key it does not set is None
FormatReminder(reminder, st) ==
    [id |-> reminder.id,
     income |-> OrUndefined(reminder.income),
     outcome |-> OrUndefined(reminder.outcome),
     fromAccount |-> FieldOf(Lookup(st, "account", reminder.outcomeAccount),
                             "title"),
     toAccount |-> FieldOf(Lookup(st, "account", reminder.incomeAccount),
                           "title"),
     categories |-> FilterBoolean(CategoryTitles(st, reminder.tag)),
     startDate |-> reminder.startDate,
     endDate |-> reminder.endDate]

\* the markers get_reminders attaches to the reminder
AttachedMarkers(st, r, a) ==
    LET ofReminder(m) == MarkerOfReminder(m, r)
        inState(m) == MarkerStateFilter(m, a.include_processed)
        markers == Slice(SortByDateAsc(
                             SelectSeq(SelectSeq(
                                 ArrayFrom(ValuesOf(st, "reminderMarker")),
                                 ofReminder), inState)),
                         a.markers_limit)
    IN  [i \in 1..Len(markers) |->
            [id |-> markers[i].id, date |-> markers[i].date,
             state |-> markers[i].state,
             income |-> markers[i].income, outcome |-> markers[i].outcome]]

\* get_reminders: what the handler returns; `markers` is the empty sequence
\* where the handler leaves it undefined
get_reminders(st, a, clock) ==
    LET todayStr == todayString(clock)
        active(r) == IsActive(r, todayStr)
        all == ReminderArray(st)
        sorted == SortByStartDateDesc(IF a.active_only
                                      THEN SelectSeq(all, active) ELSE all)
        effectiveLimit == IF a.limit < 200 THEN a.limit ELSE 200
        reminders == Slice(sorted, effectiveLimit)
    IN  [threw |-> FALSE,
         reminders |->
            [i \in 1..Len(reminders) |->
                [formatted |-> FormatReminder(reminders[i], st),
                 id |-> reminders[i].id,
                 markers |-> AttachedMarkers(st, reminders[i], a)]],
         truncated |-> Len(sorted) > effectiveLimit,
         total |-> IF Len(sorted) > effectiveLimit
                   THEN Some(Len(sorted)) ELSE None]

(***************************************************************************)
(* The arguments the tools are called with.                                *)
(***************************************************************************)
TransactionTypes == {"expense", "income", "transfer"}

\* get_transactions is called with a period and a type, or for all dates
\* with an account, a category and a limit
GetTransactionsArgs ==
    [start_date : Dates, end_date : Opt(Dates), type : Opt(TransactionTypes),
     account_id : {None}, category_id : {None}, limit : {100}]
    \cup [start_date : {0}, end_date : {Some(MaxDate)}, type : {None},
          account_id : Opt({"a1"}), category_id : Opt({1}), limit : {1, 100}]

\* the keyword of the repayment of a credit
RepaymentKeywords == { << "k", "r" >> }

\* the preset balance_vs_expense: every movement counts
DEFAULT_BALANCE_VS_EXPENSE ==
    [countAllMovements |-> TRUE, countCreditRepayments |-> TRUE,
     countSavingsMovements |-> TRUE, countDebtMovements |-> TRUE,
     countOffBalanceMovements |-> TRUE, keywords |-> None]

\* the preset income_vs_expense: the repayments of credits count
DEFAULT_INCOME_VS_EXPENSE ==
    [countAllMovements |-> FALSE, countCreditRepayments |-> TRUE,
     countSavingsMovements |-> FALSE, countDebtMovements |-> FALSE,
     countOffBalanceMovements |-> FALSE, keywords |-> Some(RepaymentKeywords)]

\* the mode configurations: every setting of the flags, with or without a
\* list of keywords
ModeConfigs ==
    [countAllMovements : BOOLEAN, countCreditRepayments : BOOLEAN,
     countSavingsMovements : BOOLEAN, countDebtMovements : BOOLEAN,
     countOffBalanceMovements : BOOLEAN,
     keywords : {None, Some(RepaymentKeywords)}]

\* get_reminders is called with marker_from and marker_to, with or without
\* the processed markers, or for all dates with a type
GetRemindersArgs ==
    [marker_from : Dates, marker_to : Dates, include_processed : BOOLEAN,
     type : {"all"}]
    \cup [marker_from : {0}, marker_to : {MaxDate}, include_processed : {FALSE},
          type : {"expense", "income", "transfer"}]

\* the forecast is asked for a period that begins on the first or the second
\* day and ends on the day of the scenario marker or the last day, under
\* one of the two presets
AnalyzeBudgetArgs ==
    [start_date : {0, 1}, end_date : {ScenarioPlannedDay, MaxDay},
     mode_config : {DEFAULT_BALANCE_VS_EXPENSE, DEFAULT_INCOME_VS_EXPENSE}]

\* get_reminders is called with the default limits or with limits of one,
\* for the active reminders or for all of them
GetRemindersToolArgs ==
    [include_processed : BOOLEAN, active_only : BOOLEAN,
     limit : {1, 50}, markers_limit : {1, 5}]

\* get_analytics is called with a period and a type, or for all dates with
\* a grouping and a type
GetAnalyticsArgs ==
    [start_date : Dates, end_date : Opt(Dates), group_by : {"category"},
     type : {"expense", "income", "all"}]
    \cup [start_date : {0}, end_date : {Some(MaxDate)},
          group_by : {"category", "account", "merchant"},
          type : {"expense", "income", "all"}]

\* lists of one category id, known or not
CategoryIdLists == { << id >> : id \in Ids \cup {UnknownId} }

\* currency ids: the two instruments, and 0 that no instrument has
CurrencyIds == {1, 2, 0}

CreateTransactionArgs ==
    [type : TransactionTypes, amount : PositiveAmounts,
     account_id : {"a1", "aX"}, to_account_id : Opt({"a1", "a2", "aX"}),
     category_ids : Opt(CategoryIdLists), currency_id : Opt({1, 0}),
     income_amount : Opt(PositiveAmounts)]

UpdateTransactionArgs ==
    [id : {"tx1", "txX"}, amount : Opt(PositiveAmounts),
     category_ids : Opt(CategoryIdLists),
     date : {None}, payee : {None}, comment : {None}]
    \cup [id : {"tx1"}, amount : Opt(PositiveAmounts), category_ids : {None},
          date : Opt(Dates), payee : Opt({Text("shop")}),
          comment : Opt({Text("note")})]

DeleteTransactionArgs == [id : {"tx1", "txX"}]

CreateReminderArgs ==
    [type : TransactionTypes, amount : PositiveAmounts,
     account_id : {"a1", "aX"}, to_account_id : Opt({"a2", "aX"}),
     category_ids : Opt(CategoryIdLists)]

UpdateReminderArgs ==
    [id : {"r1", "rX"}, amount : Opt(PositiveAmounts),
     category_ids : Opt(CategoryIdLists)]

DeleteReminderArgs == [id : {"r1", "rX"}]

CreateAccountArgs == [currency_id : CurrencyIds]

Months == {1, 2}

CategoryArgs ==
    { [form |-> "ALL"] }
    \cup { [form |-> "id", text |-> id] : id \in Ids \cup {UnknownId} }
    \cup { [form |-> "title", text |-> << "title", id >>] :
              id \in Ids \cup {UnknownId} }

BudgetArgs ==
    [month : Months, category : CategoryArgs,
     income : Opt(PositiveAmounts), outcome : Opt(PositiveAmounts)]

DeleteBudgetArgs == [month : Months, category : CategoryArgs]

(***************************************************************************)
(* A tool call is one step: the handler from the return of                 *)
(* ensureInitialized() on and, when it calls writeDiff, the request, the   *)
(* response and its application.  The gateway answers a write with the     *)
(* entities written (echo) or with no entities.  lastApply records the     *)
(* calls: the tool, its arguments, whether the handler threw, the changes  *)
(* handed to writeDiff, what a read tool returned, the maps before.        *)
(***************************************************************************)
Called(tool, a, r, result) ==
    [tool |-> tool, args |-> a, threw |-> r.threw, changes |-> r.changes,
     result |-> result, before |-> store]

\* a read tool whose handler comes to r: it threw, or returns r
ReadTool(tool, a, r) ==
    /\ lastApply' = Append(lastApply,
                           Called(tool, a, [threw |-> r.threw, changes |-> None],
                                  Some(r)))
    /\ UNCHANGED << client, serverTimestamp, initialized, syncPromise, lastSyncTime,
                    store, now, calls, gwClock >>

\* the response of the gateway to a write
WriteResponse(changes, echo) ==
    [serverTimestamp |-> serverTimestamp + 1,
     arrays |-> IF echo THEN changes.arrays ELSE EmptyMap,
     deletion |-> << >>]

\* a write tool whose handler comes to r: it threw, or writeDiff sends the
\* changes and applies the response
WriteTool(tool, a, r) ==
    /\ lastApply' = Append(lastApply, Called(tool, a, r, None))
    /\ IF r.threw
       THEN UNCHANGED << serverTimestamp, store, lastSyncTime >>
       ELSE \E echo \in BOOLEAN :
            \E d \in { ApplyDiff(serverTimestamp, store,
                                  WriteResponse(r.changes.val, echo)) } :
                /\ serverTimestamp' = d.serverTimestamp
                /\ store' = d.store
                /\ lastSyncTime' = now
    /\ UNCHANGED << client, initialized, syncPromise, now, calls, gwClock >>

GetTransactions ==
    \E a \in GetTransactionsArgs :
        ReadTool("get_transactions", a, get_transactions(store, a, now))

AnalyzeBudgetDetailed ==
    \E a \in AnalyzeBudgetArgs :
        ReadTool("analyze_budget_detailed", a,
                 analyze_budget_detailed(store, a))

GetReminders ==
    \E a \in GetRemindersToolArgs :
        ReadTool("get_reminders", a, get_reminders(store, a, now))

GetRemindersByMarkers ==
    \E a \in GetRemindersArgs :
        ReadTool("get_reminders", a, get_reminders_by_markers(store, a))

ClassifyTransfer ==
    \E mode_config \in ModeConfigs :
        ReadTool("classify_transfer", mode_config,
                 classify_stored(store, mode_config))

GetAnalytics ==
    \E a \in GetAnalyticsArgs :
        ReadTool("get_analytics", a, get_analytics(store, a, now))

CreateTransaction ==
    \E a \in CreateTransactionArgs :
        WriteTool("create_transaction", a, create_transaction(store, a, now))

UpdateTransaction ==
    \E a \in UpdateTransactionArgs :
        WriteTool("update_transaction", a, update_transaction(store, a, now))

DeleteTransaction ==
    \E a \in DeleteTransactionArgs :
        WriteTool("delete_transaction", a, delete_transaction(store, a, now))

CreateReminder ==
    \E a \in CreateReminderArgs :
        WriteTool("create_reminder", a, create_reminder(store, a, now))

UpdateReminder ==
    \E a \in UpdateReminderArgs :
        WriteTool("update_reminder", a, update_reminder(store, a, now))

DeleteReminder ==
    \E a \in DeleteReminderArgs :
        WriteTool("delete_reminder", a, delete_reminder(store, a, now))

CreateAccount ==
    \E a \in CreateAccountArgs :
        WriteTool("create_account", a, create_account(store, a, now))

CreateBudget ==
    \E a \in BudgetArgs :
        WriteTool("create_budget", a, create_budget(store, a, now))

UpdateBudget ==
    \E a \in BudgetArgs :
        WriteTool("update_budget", a, update_budget(store, a, now))

DeleteBudget ==
    \E a \in DeleteBudgetArgs :
        WriteTool("delete_budget", a, delete_budget(store, a, now))

\* a synchronized cache that holds the transaction tx, one second after the
\* entities it holds were last changed
Synced(tx) ==
    /\ serverTimestamp = 1
    /\ initialized = TRUE
    /\ syncPromise = 0
    /\ lastSyncTime = 0
    /\ store = ToolStore(tx)
    /\ now = 1
    /\ calls = NoCalls
    /\ client = NoClient
    /\ gwClock = 0
    /\ lastApply = << >>

InitTools == \E tx \in StoredTransactions : Synced(tx)

\* one tool is called
NextTools ==
    /\ lastApply = << >>
    /\ \/ GetTransactions
       \/ GetAnalytics
       \/ CreateTransaction
       \/ UpdateTransaction
       \/ DeleteTransaction
       \/ CreateReminder
       \/ UpdateReminder
       \/ DeleteReminder
       \/ CreateAccount

SpecTools == InitTools /\ [][NextTools]_vars

\* the budget tools, called on a cache without budgets
InitBudget ==
    Synced(CHOOSE tx \in StoredTransactions : tx.outcome = 1 /\ tx.income = 0)

\* two budget tools are called, one after the other
NextBudget ==
    /\ Len(lastApply) < 2
    /\ \/ CreateBudget
       \/ UpdateBudget
       \/ DeleteBudget

SpecBudget == InitBudget /\ [][NextBudget]_vars

(***************************************************************************)
(* SpecUpdate: the cache holds a transaction and a reminder with the same  *)
(* amounts and accounts; update_transaction and update_reminder are        *)
(* called, one after the other.                                            *)
(***************************************************************************)
\* the reminder "r1" with the amounts and the accounts of the transaction tx
TwinReminder(tx) ==
    [StoredReminder EXCEPT !.outcome = tx.outcome,
                           !.income = tx.income,
                           !.outcomeAccount = tx.outcomeAccount,
                           !.incomeAccount = tx.incomeAccount]

\* a synchronized cache with the maps st, one second after the entities it
\* holds were last changed
SyncedWith(st) ==
    /\ serverTimestamp = 1
    /\ initialized = TRUE
    /\ syncPromise = 0
    /\ lastSyncTime = 0
    /\ store = st
    /\ now = 1
    /\ calls = NoCalls
    /\ client = NoClient
    /\ gwClock = 0
    /\ lastApply = << >>

InitUpdate ==
    \E tx \in StoredTransactions :
        SyncedWith(MapSet(ToolStore(tx), << "reminder", "r1" >>, TwinReminder(tx)))

NextUpdate ==
    /\ Len(lastApply) < 2
    /\ \/ UpdateTransaction
       \/ UpdateReminder

SpecUpdate == InitUpdate /\ [][NextUpdate]_vars

(***************************************************************************)
(* SpecClassify: the cache holds the transaction "tx1" from the account    *)
(* "a1" to an account of any kind, or to an account the cache does not     *)
(* have, with any amounts and any comment; the classifier is applied to it *)
(* under a mode configuration.                                             *)
(***************************************************************************)
\* the kinds of accounts: type, creditLimit, savings flag, inBalance flag
AccountKinds ==
    {"ccard", "checking", "debt", "cash"} \X {0, 1} \X BOOLEAN \X BOOLEAN

\* the comments of transfers: none, a keyword in small letters, in
\* capitals, inside other letters, its letters apart, no keyword
Comments ==
    { None, Some(<< "k", "r" >>), Some(<< "K", "R" >>),
      Some(<< "x", "K", "r", "x" >>), Some(<< "k", "x", "r" >>),
      Some(<< "x" >>) }

\* a transaction "tx1" from "a1"
TransferOf(amounts, ia, comment) ==
    [null |-> FALSE, id |-> "tx1", deleted |-> FALSE, changed |-> 0,
     created |-> 0, date |-> 1,
     outcome |-> amounts[1], income |-> amounts[2],
     outcomeAccount |-> "a1", incomeAccount |-> ia,
     outcomeInstrument |-> 1, incomeInstrument |-> 1,
     tag |-> None, merchant |-> None, payee |-> None, comment |-> comment]

\* the cache with "tx1", "a1" in or off the balance and "a2" of a kind
ClassifyStore(tx, inBalance, kind) ==
    MapSet(MapSet(ToolStore(tx), << "account", "a1" >>,
                  AccountOfKind("a1", "checking", 0, FALSE, inBalance)),
           << "account", "a2" >>,
           AccountOfKind("a2", kind[1], kind[2], kind[3], kind[4]))

\* a transfer of the scenario amount to an account of every kind, or a
\* transaction of any amounts and comment to a credit card, to a debit card
\* off the balance, to its own account or to an account the cache lacks
InitClassify ==
    \/ \E kind \in AccountKinds, inBalance \in BOOLEAN,
          comment \in { None, Some(<< "k", "r" >>), Some(<< "x" >>) } :
          SyncedWith(ClassifyStore(
              TransferOf(<< ScenarioTransfer, ScenarioTransfer >>, "a2", comment),
              inBalance, kind))
    \/ \E kind \in { << "ccard", 1, FALSE, TRUE >>, << "ccard", 0, FALSE, FALSE >> },
          amounts \in { << ScenarioTransfer, ScenarioTransfer >>,
                        << ScenarioTransfer, 1 >>, << 1, ScenarioTransfer >>,
                        << 1, 0 >>, << 0, 1 >>, << 0, 0 >> },
          ia \in {"a2", "a1", "aX"}, comment \in Comments :
          SyncedWith(ClassifyStore(TransferOf(amounts, ia, comment), TRUE, kind))

\* the classifier is applied once
NextClassify ==
    /\ lastApply = << >>
    /\ ClassifyTransfer

SpecClassify == InitClassify /\ [][NextClassify]_vars

(***************************************************************************)
(* SpecMarkers: the cache holds the reminders "r1" and "r2" and their      *)
(* markers; get_reminders is called once with marker_from and marker_to.   *)
(***************************************************************************)
\* the reminder "r2": an income
SecondReminder ==
    [StoredReminder EXCEPT !.id = "r2", !.outcome = 0, !.income = 1]

\* the cache with the reminder r1, the reminder "r2" and the markers
MarkerStore(r1, markers) ==
    LET tx == CHOOSE t \in StoredTransactions :
                  /\ t.outcome = 1 /\ t.income = 0
                  /\ t.outcomeAccount = "a1" /\ t.incomeAccount = "a1"
        st == MapSet(MapSet(ToolStore(tx), << "reminder", "r1" >>, r1),
                     << "reminder", "r2" >>, SecondReminder)
    IN  [key \in DOMAIN st \cup { << "reminderMarker", m.id >> : m \in markers }
            |-> IF key \in DOMAIN st THEN st[key]
                ELSE CHOOSE m \in markers : m.id = key[2]]

\* one marker of "r1" of any date and state, and none or one planned marker
\* of "r2" of any date
BoundaryMarkers ==
    { {Marker("m1", "r1", date, state, 1, 0, 1)} \cup other :
        date \in Dates, state \in MarkerStates,
        other \in { {} } \cup { {Marker("m2", "r2", d, "planned", 0, 1, 2)} :
                                  d \in Dates } }

\* five markers of "r1" of the scenario amount each: the first of any date,
\* the last of any state
ScenarioMarkers ==
    { { Marker("m1", "r1", date, "planned", ScenarioMarker, 0, 1),
        Marker("m2", "r1", 0, "planned", ScenarioMarker, 0, 2),
        Marker("m3", "r1", 1, "planned", ScenarioMarker, 0, 3),
        Marker("m4", "r1", 1, "planned", ScenarioMarker, 0, 4),
        Marker("m5", "r1", MaxDate, state, ScenarioMarker, 0, 5) } :
        date \in Dates, state \in MarkerStates }

InitMarkers ==
    \/ \E markers \in BoundaryMarkers :
          SyncedWith(MarkerStore(StoredReminder, markers))
    \/ \E markers \in ScenarioMarkers :
          SyncedWith(MarkerStore(
              [StoredReminder EXCEPT !.outcome = ScenarioMarker], markers))

\* get_reminders is called once, in marker mode
NextMarkers ==
    /\ lastApply = << >>
    /\ GetRemindersByMarkers

SpecMarkers == InitMarkers /\ [][NextMarkers]_vars

(***************************************************************************)
(* SpecForecast: the cache holds the transaction "tx1" and the markers of  *)
(* the reminder "r1"; the account "a1" holds the starting balance, "a2" is *)
(* a credit card.  analyze_budget_detailed is called once.                 *)
(***************************************************************************)
\* the dates of the transaction and of the markers: the first day, the days
\* of the scenario, the last day
ForecastDates == {0, ScenarioActualDay, ScenarioPlannedDay, MaxDay}

\* "tx1": an expense, an income or a transfer to "a2" of the scenario
\* amount, of any of the dates, deleted or not
ForecastTransactions ==
    { [TransferOf(amounts, IF amounts[1] > 0 /\ amounts[2] > 0
                           THEN "a2" ELSE "a1", None)
         EXCEPT !.date = date, !.deleted = deleted] :
        amounts \in { << ScenarioActual, 0 >>, << 0, ScenarioActual >>,
                      << ScenarioActual, ScenarioActual >> },
        date \in ForecastDates, deleted \in BOOLEAN }

\* one marker of the scenario amount, of any date and state, or a processed
\* marker on the day of the transaction and a planned one after it
ForecastMarkerSets ==
    { {Marker("m1", "r1", date, state, ScenarioPlanned, 0, 1)} :
        date \in ForecastDates, state \in MarkerStates }
    \cup { { Marker("m1", "r1", ScenarioActualDay, "processed",
                    ScenarioActual, 0, 1),
             Marker("m2", "r1", ScenarioPlannedDay, "planned",
                    ScenarioPlanned, 0, 2) } }

\* the cache of the forecast
ForecastStore(tx, markers) ==
    MapSet(MapSet(MapSet(MarkerStore(StoredReminder, markers),
                         << "transaction", "tx1" >>, tx),
                  << "account", "a1" >>,
                  [Account("a1") EXCEPT !.balance = ScenarioBalance]),
           << "account", "a2" >>, AccountOfKind("a2", "ccard", 1, FALSE, TRUE))

InitForecast ==
    \E tx \in ForecastTransactions, markers \in ForecastMarkerSets :
        SyncedWith(ForecastStore(tx, markers))

\* the forecast is computed once
NextForecast ==
    /\ lastApply = << >>
    /\ AnalyzeBudgetDetailed

SpecForecast == InitForecast /\ [][NextForecast]_vars

(***************************************************************************)
(* SpecReminders: the cache holds the reminders "r1" and "r2" and their    *)
(* markers; get_reminders is called, at once or after delete_reminder.     *)
(***************************************************************************)
\* the markers of "r1" and "r2": one of any state for "r1" and a planned or
\* a processed one for each of the two reminders, or three markers of "r1"
ListedMarkers ==
    { { Marker("m1", "r1", 1, state, 1, 0, 1),
        Marker("m2", "r2", 0, other, 0, 1, 2),
        Marker("m3", "r1", 0, "planned", 1, 0, 3) } :
        state \in MarkerStates, other \in {"planned", "processed"} }
    \cup { { Marker("m1", "r1", MaxDate, "planned", 1, 0, 1),
             Marker("m2", "r1", 1, state, 1, 0, 2),
             Marker("m3", "r1", 0, "planned", 1, 0, 3) } :
             state \in MarkerStates }

\* "r1" without an end, or with one that is past, today or to come
EndDates == { None } \cup { Some(d) : d \in Dates }

InitReminders ==
    \E markers \in ListedMarkers, endDate \in EndDates :
        SyncedWith(MarkerStore([StoredReminder EXCEPT !.endDate = endDate],
                               markers))

\* get_reminders is called, at once or after delete_reminder
NextReminders ==
    \/ /\ lastApply = << >>
       /\ \/ GetReminders
          \/ DeleteReminder
    \/ /\ Len(lastApply) = 1
       /\ lastApply[1].tool = "delete_reminder"
       /\ GetReminders

SpecReminders == InitReminders /\ [][NextReminders]_vars

(***************************************************************************)
(* SpecRead: the cache holds two transactions, "tx1" of any date, amounts  *)
(* and references and the expense "tx2"; get_transactions or get_analytics *)
(* is called, at once or after delete_transaction.                         *)
(***************************************************************************)
\* "tx1" with every date, deletion flag, amounts and the same or another
\* account
DatedTransactions ==
    [null : {FALSE}, id : {"tx1"}, deleted : BOOLEAN, changed : {0},
     created : {0}, date : Dates,
     outcome : Amounts, income : Amounts,
     outcomeAccount : {"a1"}, incomeAccount : AccountIds,
     outcomeInstrument : {1}, incomeInstrument : {1},
     tag : {None}, merchant : {None}, payee : {None}, comment : {None}]

\* the merchant and the payee of a transaction: a merchant of the cache, a
\* merchant the cache does not have, a payee
MerchantAndPayee ==
    { << None, None >>, << Some("m1"), None >>, << Some("mX"), None >>,
      << Some("mX"), Some(Text("p")) >>, << None, Some(Text("p")) >> }

\* "tx1" with references to accounts, instruments, categories and merchants
\* that the cache has or does not have
ReferringTransactions ==
    { [null |-> FALSE, id |-> "tx1", deleted |-> FALSE, changed |-> 0,
       created |-> 0, date |-> 1,
       outcome |-> amounts[1], income |-> amounts[2],
       outcomeAccount |-> oa, incomeAccount |-> ia,
       outcomeInstrument |-> n, incomeInstrument |-> n,
       tag |-> tag, merchant |-> mp[1], payee |-> mp[2], comment |-> None] :
        amounts \in { << MaxAmount, 0 >>, << 0, MaxAmount >>,
                      << MaxAmount, MaxAmount >> },
        oa \in {"a1", "aX"}, ia \in {"a2", "aX"}, n \in {1, 0},
        tag \in { None, Some(<< 1 >>), Some(<< UnknownId >>),
                  Some(<< UnknownId, 1 >>) },
        mp \in MerchantAndPayee }

\* the expense "tx2", created after "tx1"
OtherTransaction ==
    [null |-> FALSE, id |-> "tx2", deleted |-> FALSE, changed |-> 0,
     created |-> 1, date |-> 1,
     outcome |-> MaxAmount, income |-> 0,
     outcomeAccount |-> "a1", incomeAccount |-> "a1",
     outcomeInstrument |-> 1, incomeInstrument |-> 1,
     tag |-> Some(<< 1 >>), merchant |-> Some("m1"), payee |-> None,
     comment |-> None]

\* "a2" is a credit card
InitRead ==
    \E tx \in DatedTransactions \cup ReferringTransactions :
        SyncedWith(MapSet(MapSet(ToolStore(tx), << "transaction", "tx2" >>,
                                 OtherTransaction),
                          << "account", "a2" >>,
                          AccountOfKind("a2", "ccard", 1, FALSE, TRUE)))

\* a read tool is called, at once or after delete_transaction
NextRead ==
    \/ /\ lastApply = << >>
       /\ \/ GetTransactions
          \/ GetAnalytics
          \/ ClassifyTransfer
          \/ DeleteTransaction
    \/ /\ Len(lastApply) = 1
       /\ lastApply[1].tool = "delete_transaction"
       /\ \/ GetTransactions
          \/ GetAnalytics

SpecRead == InitRead /\ [][NextRead]_vars

(***************************************************************************)
(* Claims about applyDiff (SpecApply).                                     *)
(***************************************************************************)
Applied == lastApply # << >>

\* applyDiff ran to its last statement
AppliedWhole == Applied /\ ~lastApply[1].threw

\* applyDiff threw part-way
AppliedPartly == Applied /\ lastApply[1].threw

\* the ids of a kind's entity array in the response applied
IdsMerged(kind) ==
    LET arr == ArrayOf(lastApply[1].diff, kind)
    IN  { arr[i].id : i \in 1..Len(arr) }

\* the ids the response's deletion list names for a kind
IdsDeleted(kind) ==
    LET dels == lastApply[1].diff.deletion
    IN  { dels[i].id : i \in { j \in 1..Len(dels) : dels[j].object = kind } }

\* C8: when applying a response aborts part-way, the cursor still holds the
\* value it had before the response (it is advanced only after all merges and
\* deletions are done).
C8_CursorOnlyAfterMerges ==
    AppliedPartly => serverTimestamp = lastApply[1].before.serverTimestamp

\* C9 as stated: after a response was applied, an id that occurs both in an
\* entity array and in the deletion list of the response is absent from the
\* store, for every kind whose entities carry an id.
C9_DeletedAfterMerge ==
    AppliedWhole =>
        \A kind \in Kinds \ {"budget"} :
            \A id \in IdsMerged(kind) \cap IdsDeleted(kind) :
                ~MapHas(store, << kind, id >>)

\* C9 amended: the same, for the six kinds applyDeletion has a case for
\* (account, tag, merchant, reminder, reminderMarker, transaction).
C9_DeletedAfterMergeDeletable ==
    AppliedWhole =>
        \A kind \in DeletableKinds :
            \A id \in IdsMerged(kind) \cap IdsDeleted(kind) :
                ~MapHas(store, << kind, id >>)

\* C9 witness: a response was applied that merges and deletes the same
\* transaction id, and the id was not in the store before.
C9_Witness ==
    /\ AppliedWhole
    /\ \E id \in IdsMerged("transaction") \cap IdsDeleted("transaction") :
          ~MapHas(lastApply[1].before.store, << "transaction", id >>)

\* C15: a response that carries a new serverTimestamp and no entities and no
\* deletions leaves every entity map as it was, and the cursor takes the new
\* value.
C15_EmptyDiffKeepsStore ==
    (/\ Applied
     /\ lastApply[1].diff.serverTimestamp # Undefined
     /\ lastApply[1].diff.arrays = EmptyMap
     /\ lastApply[1].diff.deletion = << >>)
        => /\ ~lastApply[1].threw
           /\ store = lastApply[1].before.store
           /\ serverTimestamp = lastApply[1].diff.serverTimestamp

\* C15 witness: an empty response with a new timestamp was applied to a cache
\* that holds entities of a full snapshot
C15_Witness ==
    /\ Applied
    /\ lastApply[1].diff.arrays = EmptyMap
    /\ lastApply[1].diff.deletion = << >>
    /\ lastApply[1].diff.serverTimestamp > lastApply[1].before.serverTimestamp
    /\ lastApply[1].before.serverTimestamp > 0
    /\ lastApply[1].before.store # EmptyStore

\* the (kind, id) pairs the deletion list of the response applied names, for
\* the kinds of a set
Deleted(kinds) ==
    LET dels == lastApply[1].diff.deletion
    IN  { << dels[i].object, dels[i].id >> :
            i \in { j \in 1..Len(dels) : dels[j].object \in kinds } }

\* C16 as stated: after a response was applied, no entity that its deletion
\* list names by kind and id is in the store, whatever the kind (a budget has
\* no id; the kinds whose entities have one are taken).
C16_DeletionsApplied ==
    AppliedWhole =>
        \A key \in Deleted(Kinds \ {"budget"}) : ~MapHas(store, key)

\* C16 amended: after a response was applied, no account, tag, merchant,
\* reminder, reminderMarker or transaction that its deletion list names is in
\* the store.
C16_DeletionsAppliedDeletable ==
    AppliedWhole =>
        \A key \in Deleted(DeletableKinds) : ~MapHas(store, key)

\* C16 witness: a response was applied whose deletion list names a
\* transaction the store held, and that the response does not carry
C16_Witness ==
    /\ AppliedWhole
    /\ \E key \in Deleted({"transaction"}) :
          /\ MapHas(lastApply[1].before.store, key)
          /\ ArrayOf(lastApply[1].diff, "transaction") = << >>

(***************************************************************************)
(* Claims about batches (SpecBatch).                                       *)
(***************************************************************************)
\* the transaction ids of a response's array
BatchIdsOf(diff) ==
    LET arr == ArrayOf(diff, "transaction")
    IN  { arr[i].id : i \in 1..Len(arr) }

\* the transaction ids of a response's deletion list
DeletedIdsOf(diff) == { diff.deletion[i].id : i \in 1..Len(diff.deletion) }

\* the last element of a response's array that has the id
LastOccurrence(diff, id) ==
    LET arr == ArrayOf(diff, "transaction")
        last == CHOOSE i \in 1..Len(arr) :
                    /\ arr[i].id = id
                    /\ \A j \in (i + 1)..Len(arr) : arr[j].id # id
    IN  arr[last]

\* the first response has been applied, the second has not
FirstApplied == Len(lastApply) = 1

\* C13: after a batch, a transaction id that occurs in the batch (and not in
\* its deletion list) maps to its last occurrence in the batch, and every key
\* of the store that occurs neither in the batch nor in its deletion list
\* maps to what it did before, or is absent as before.
C13_LastWriteWins ==
    FirstApplied =>
        LET diff == lastApply[1].diff
            old == lastApply[1].before.store
            touched == {"transaction"} \X (BatchIdsOf(diff) \cup DeletedIdsOf(diff))
        IN  /\ \A id \in BatchIdsOf(diff) \ DeletedIdsOf(diff) :
                  /\ MapHas(store, << "transaction", id >>)
                  /\ store[<< "transaction", id >>] = LastOccurrence(diff, id)
            /\ (DOMAIN store) \ touched = (DOMAIN old) \ touched
            /\ \A key \in (DOMAIN old) \ touched : store[key] = old[key]

\* C13 witness: a batch with two elements of one id was applied to a cache
\* that held this transaction and others
C13_Witness ==
    /\ FirstApplied
    /\ lastApply[1].before.store = FullStore
    /\ \E id \in BatchIdsOf(lastApply[1].diff) \ DeletedIdsOf(lastApply[1].diff) :
          LET arr == ArrayOf(lastApply[1].diff, "transaction")
          IN  /\ Len(arr) = 2
              /\ arr[1].id = id
              /\ arr[2].id = id

\* both responses have been applied
BothApplied == Len(lastApply) = 2

\* the single batch whose arrays and deletion list are A's followed by B's
MergedBatch(A, B) ==
    LET arr == ArrayOf(A, "transaction") \o ArrayOf(B, "transaction")
    IN  [serverTimestamp |-> B.serverTimestamp,
         arrays |-> IF arr = << >> THEN EmptyMap
                    ELSE [k \in {"transaction"} |-> arr],
         deletion |-> A.deletion \o B.deletion]

\* the store after the merged batch of the two responses applied
MergedStore ==
    ApplyEntities(lastApply[1].before.store,
                  MergedBatch(lastApply[1].diff, lastApply[2].diff)).store

\* C14 as stated: applying batch A and then batch B yields the store that
\* applying the merged batch (A's arrays and deletions followed by B's)
\* yields.
C14_SequentialIsMerged == BothApplied => store = MergedStore

\* C14 amended: the same, provided B carries no entity that A's deletion list
\* names.
C14_SequentialIsMergedNoRevival ==
    (/\ BothApplied
     /\ DeletedIdsOf(lastApply[1].diff) \cap BatchIdsOf(lastApply[2].diff) = {})
        => store = MergedStore

\* C14 witness: A carries an entity and a deletion, B overwrites an entity
\* of A and deletes another transaction
C14_Witness ==
    /\ BothApplied
    /\ DeletedIdsOf(lastApply[1].diff) \cap BatchIdsOf(lastApply[2].diff) = {}
    /\ DeletedIdsOf(lastApply[1].diff) # {}
    /\ BatchIdsOf(lastApply[1].diff) \cap BatchIdsOf(lastApply[2].diff) # {}
    /\ DeletedIdsOf(lastApply[2].diff) # {}

(***************************************************************************)
(* Claims about the budget tools (SpecBudget).                             *)
(***************************************************************************)
\* the budget a call handed to writeDiff
BudgetWritten(rec) == rec.changes.val.arrays["budget"][1]

\* the second call is update_budget or delete_budget for the month and the
\* category of a create_budget before it, whose budget the gateway returned
BudgetCreatedThenSought ==
    /\ Len(lastApply) = 2
    /\ lastApply[1].tool = "create_budget"
    /\ ~lastApply[1].threw
    /\ lastApply[2].tool \in {"update_budget", "delete_budget"}
    /\ lastApply[2].args.month = lastApply[1].args.month
    /\ findCategoryId(lastApply[2].before, lastApply[2].args.category).has
    /\ findCategoryId(lastApply[2].before, lastApply[2].args.category).val
         = findCategoryId(lastApply[1].before, lastApply[1].args.category).val
    /\ BudgetWritten(lastApply[1]) \in ValuesOf(lastApply[2].before, "budget")

\* C17: the store holds at most one budget per (category, month); and a
\* budget written by create_budget and returned by the gateway is found by a
\* following update_budget or delete_budget for the same month and category,
\* which then writes the budget of that category and month.
C17_BudgetKeyAgrees ==
    /\ \A b1, b2 \in ValuesOf(store, "budget") :
          (b1.tag = b2.tag /\ b1.date = b2.date) => b1 = b2
    /\ BudgetCreatedThenSought =>
          /\ ~lastApply[2].threw
          /\ BudgetWritten(lastApply[2]).tag = BudgetWritten(lastApply[1]).tag
          /\ BudgetWritten(lastApply[2]).date = BudgetWritten(lastApply[1]).date

\* C17 witness: create_budget for the category "ALL", returned by the
\* gateway, then update_budget for "ALL" in the same month
C17_Witness ==
    /\ BudgetCreatedThenSought
    /\ lastApply[1].args.category.form = "ALL"
    /\ lastApply[2].tool = "update_budget"
    /\ Cardinality(ValuesOf(store, "budget")) = 1

(***************************************************************************)
(* Claims about the tools (SpecTools).                                     *)
(***************************************************************************)
\* a tool has been called
ToolCalled == lastApply # << >>

\* the optional id is given and the cache has no entity of the kind under it
GivenUnknown(st, kind, opt) == opt.has /\ ~MapHas(st, << kind, opt.val >>)

\* the call was given an account, category, reminder, transaction or
\* currency identifier that the cache does not hold
SuppliedUnknownId(rec) ==
    LET st == rec.before
        a == rec.args
    IN  CASE rec.tool = "create_transaction" ->
               \/ ~MapHas(st, << "account", a.account_id >>)
               \/ GivenUnknown(st, "account", a.to_account_id)
               \/ ~AllCategoriesKnown(st, a.category_ids)
               \/ GivenUnknown(st, "instrument", a.currency_id)
          [] rec.tool = "create_reminder" ->
               \/ ~MapHas(st, << "account", a.account_id >>)
               \/ GivenUnknown(st, "account", a.to_account_id)
               \/ ~AllCategoriesKnown(st, a.category_ids)
          [] rec.tool = "update_transaction" ->
               \/ ~MapHas(st, << "transaction", a.id >>)
               \/ ~AllCategoriesKnown(st, a.category_ids)
          [] rec.tool = "update_reminder" ->
               \/ ~MapHas(st, << "reminder", a.id >>)
               \/ ~AllCategoriesKnown(st, a.category_ids)
          [] rec.tool = "delete_transaction" -> ~MapHas(st, << "transaction", a.id >>)
          [] rec.tool = "delete_reminder" -> ~MapHas(st, << "reminder", a.id >>)
          [] rec.tool = "create_account" -> ~MapHas(st, << "instrument", a.currency_id >>)
          [] OTHER -> FALSE

\* C18: a write tool given an account, category, reminder, transaction or
\* currency identifier that is not in the store fails before it calls
\* writeDiff: it throws, hands writeDiff nothing, and the store is unchanged.
C18_UnknownIdRejected ==
    (ToolCalled /\ SuppliedUnknownId(lastApply[1])) =>
        /\ lastApply[1].threw
        /\ ~lastApply[1].changes.has
        /\ store = lastApply[1].before

\* the changes are one entity of the kind, and no deletion record
OneEntityWritten(rec, kind) ==
    /\ rec.changes.has
    /\ rec.changes.val.deletion = << >>
    /\ DOMAIN rec.changes.val.arrays = {kind}
    /\ Len(rec.changes.val.arrays[kind]) = 1

\* C19: delete_transaction that finds its transaction submits exactly one
\* entity, the stored transaction with deleted = true, and delete_reminder
\* that finds its reminder submits exactly one entity, the stored reminder
\* with endDate in the past; the other fields, except `changed`, are those
\* of the stored entity; no deletion record is sent, and the entity is not
\* removed from the store.
C19_SoftDelete ==
    /\ (ToolCalled /\ lastApply[1].tool = "delete_transaction"
           /\ ~lastApply[1].threw) =>
          LET key == << "transaction", lastApply[1].args.id >>
              existing == lastApply[1].before[key]
          IN  /\ OneEntityWritten(lastApply[1], "transaction")
              /\ LET e == lastApply[1].changes.val.arrays["transaction"][1]
                  IN  /\ e.deleted = TRUE
                      /\ [e EXCEPT !.changed = existing.changed,
                                    !.deleted = existing.deleted] = existing
              /\ MapHas(store, key)
    /\ (ToolCalled /\ lastApply[1].tool = "delete_reminder"
           /\ ~lastApply[1].threw) =>
          LET key == << "reminder", lastApply[1].args.id >>
              existing == lastApply[1].before[key]
          IN  /\ OneEntityWritten(lastApply[1], "reminder")
              /\ LET e == lastApply[1].changes.val.arrays["reminder"][1]
                  IN  /\ e.endDate.has
                      /\ e.endDate.val < now
                      /\ [e EXCEPT !.changed = existing.changed,
                                    !.endDate = existing.endDate] = existing
              /\ MapHas(store, key)

\* C19 witness: delete_transaction found the transaction, and the gateway
\* returned it marked deleted
C19_Witness ==
    /\ ToolCalled
    /\ lastApply[1].tool = "delete_transaction"
    /\ ~lastApply[1].threw
    /\ MapHas(store, << "transaction", "tx1" >>)
    /\ store[<< "transaction", "tx1" >>].deleted
    /\ ~lastApply[1].before[<< "transaction", "tx1" >>].deleted

\* the one type of a transaction by its amounts and accounts: an expense
\* (outcome only), an income (income only), a transfer (both, between two
\* accounts), or invalid (both zero, or both positive on one account)
TypeOf(t) ==
    IF t.outcome > 0 /\ t.income = 0 THEN "expense"
    ELSE IF t.income > 0 /\ t.outcome = 0 THEN "income"
    ELSE IF t.outcome > 0 /\ t.income > 0 /\ t.outcomeAccount # t.incomeAccount
         THEN "transfer"
    ELSE "invalid"

\* the call names a period that holds the date of the transaction, and no
\* account and no category
AsksFor(rec, t) ==
    /\ t.date >= rec.args.start_date
    /\ t.date <= OrElse(rec.args.end_date, todayString(now))
    /\ rec.tool = "get_transactions" =>
           ~rec.args.account_id.has /\ ~rec.args.category_id.has

\* C20: the type tests of get_transactions, get_analytics and
\* formatTransaction agree with the one type of the transaction: a type
\* filter returns the transaction exactly when it has that type,
\* formatTransaction labels it with its type, and an invalid transaction
\* matches no filter, gets none of the labels expense / income / transfer,
\* and adds nothing to the analytics.
C20_ExactlyOneType ==
    ToolCalled =>
        LET rec == lastApply[1]
            t == rec.before[<< "transaction", "tx1" >>]
        IN  AsksFor(rec, t) =>
            /\ (rec.tool = "get_transactions" /\ rec.args.type.has) =>
                  (rec.result.val.transactions # << >>
                      <=> TypeOf(t) = rec.args.type.val)
            /\ rec.tool = "get_transactions" =>
                  \A i \in 1..Len(rec.result.val.transactions) :
                      LET f == rec.result.val.transactions[i]
                      IN  IF TypeOf(t) = "invalid"
                          THEN f.type \notin TransactionTypes
                          ELSE f.type = TypeOf(t)
            /\ rec.tool = "get_analytics" =>
                  /\ rec.result.val.transactionCount =
                        (IF \/ TypeOf(t) = rec.args.type
                            \/ (rec.args.type = "all"
                                  /\ TypeOf(t) \in {"expense", "income"})
                         THEN 1 ELSE 0)
                  /\ TypeOf(t) = "invalid" => rec.result.val.grandTotal = 0

\* the fields of the transaction that the arguments of update_transaction
\* name: the amount names outcome for an expense, income for an income and
\* both for a transfer
FieldsNamed(a, existing) ==
    (IF a.category_ids.has THEN {"tag"} ELSE {})
    \cup (IF a.date.has THEN {"date"} ELSE {})
    \cup (IF a.payee.has THEN {"payee"} ELSE {})
    \cup (IF a.comment.has THEN {"comment"} ELSE {})
    \cup (IF ~a.amount.has THEN {}
          ELSE CASE TypeOf(existing) = "expense" -> {"outcome"}
                 [] TypeOf(existing) = "income" -> {"income"}
                 [] TypeOf(existing) = "transfer" -> {"outcome", "income"}
                 [] OTHER -> {})

\* C35: update_transaction changes only what the caller passes: every field
\* of the submitted transaction other than `changed` and the fields named by
\* the supplied arguments equals the field of the stored transaction; with no
\* amount supplied, outcome and income are those of the stored transaction.
C35_UpdateChangesOnlyNamedFields ==
    (ToolCalled /\ lastApply[1].tool = "update_transaction"
        /\ ~lastApply[1].threw) =>
        LET existing == lastApply[1].before[<< "transaction", lastApply[1].args.id >>]
            e == lastApply[1].changes.val.arrays["transaction"][1]
        IN  \A f \in DOMAIN existing
                     \ ({"changed"} \cup FieldsNamed(lastApply[1].args, existing)) :
                e[f] = existing[f]

\* C39: a transaction built by create_transaction with type T is classified
\* as T, and as no other type, by the type filter of get_transactions, for
\* every input the handler accepts.
C39_CreatedTypeIsFilteredType ==
    (ToolCalled /\ lastApply[1].tool = "create_transaction"
        /\ ~lastApply[1].threw) =>
        \A type \in TransactionTypes :
            TransactionsTypeFilter(
                lastApply[1].changes.val.arrays["transaction"][1], type)
                <=> type = lastApply[1].args.type

(***************************************************************************)
(* Claims about update_transaction and update_reminder (SpecUpdate).       *)
(***************************************************************************)
\* the call of the tool among the calls made, as a set of at most one record
CallsOf(tool) ==
    { lastApply[i] : i \in { j \in 1..Len(lastApply) : lastApply[j].tool = tool } }

\* the call found its entity and was given a new amount
GaveAmount(rec) == ~rec.threw /\ rec.args.amount.has

\* the outcome and the income of the entity the call handed to writeDiff
AmountsWritten(rec, kind) ==
    LET e == rec.changes.val.arrays[kind][1]
    IN  << e.outcome, e.income >>

\* C21: a reminder and a transaction with the same outcome, income,
\* outcomeAccount and incomeAccount are given the same type by
\* update_reminder and update_transaction: the type decides which of the
\* two amounts take the new amount, so the two tools, given the same new
\* amount, write the same outcome and income.
C21_ReminderTypeIsTransactionType ==
    \A t \in CallsOf("update_transaction") :
        \A r \in CallsOf("update_reminder") :
            (GaveAmount(t) /\ GaveAmount(r)
                /\ t.args.amount = r.args.amount) =>
                AmountsWritten(t, "transaction") = AmountsWritten(r, "reminder")

\* the calls of the two update tools
UpdateCalls ==
    { [rec |-> rec, kind |-> "transaction"] :
        rec \in CallsOf("update_transaction") }
    \cup { [rec |-> rec, kind |-> "reminder"] :
             rec \in CallsOf("update_reminder") }

\* the entity the call found in the store
StoredBy(c) == c.rec.before[<< c.kind, c.rec.args.id >>]

\* the entity the call handed to writeDiff
SubmittedBy(c) == c.rec.changes.val.arrays[c.kind][1]

\* C38: update_transaction and update_reminder preserve the type of the
\* entity: when the stored entity is a valid expense, income or transfer and
\* a positive new amount is given, the submitted entity has the type of the
\* stored one.
C38_UpdatePreservesType ==
    \A c \in UpdateCalls :
        (GaveAmount(c.rec) /\ TypeOf(StoredBy(c)) # "invalid") =>
            TypeOf(SubmittedBy(c)) = TypeOf(StoredBy(c))

\* C38 witness: update_transaction and update_reminder each gave a new
\* amount to a transfer between two accounts and submitted a transfer
C38_Witness ==
    \E t \in UpdateCalls, r \in UpdateCalls :
        /\ t.kind = "transaction" /\ r.kind = "reminder"
        /\ GaveAmount(t.rec) /\ GaveAmount(r.rec)
        /\ TypeOf(StoredBy(t)) = "transfer"
        /\ TypeOf(SubmittedBy(t)) = "transfer"
        /\ TypeOf(StoredBy(r)) = "transfer"
        /\ TypeOf(SubmittedBy(r)) = "transfer"

(***************************************************************************)
(* Claims about get_transactions and get_analytics (SpecRead).             *)
(***************************************************************************)
\* the last call made
LastCall == lastApply[Len(lastApply)]

\* the last call made is a call of the tool, and it returned
Returned(tool) ==
    /\ lastApply # << >>
    /\ LastCall.tool = tool
    /\ ~LastCall.threw

\* the transactions of the store the last call read
ReadTransactions == ValuesOf(LastCall.before, "transaction")

\* the store the last call read, without the transaction t
ReadWithout(t) == MapDelete(LastCall.before, << "transaction", t.id >>)

\* the last date of the period the call asks for
EndDateOf(rec) == OrElse(rec.args.end_date, todayString(now))

\* the ids of the transactions get_transactions returned
IdsReturned(rec) ==
    { rec.result.val.transactions[i].id :
        i \in 1..Len(rec.result.val.transactions) }

\* C22: get_analytics never counts a transfer: whatever the type and the
\* grouping asked for, a stored transaction with outcome > 0, income > 0 and
\* two different accounts adds nothing to transactionCount, to grandTotal or
\* to the name, the total or the count of any group; the result is the one
\* the same call gives on the store without the transfer.
C22_TransfersNotCounted ==
    Returned("get_analytics") =>
        \A t \in ReadTransactions :
            (t.outcome > 0 /\ t.income > 0
                /\ t.outcomeAccount # t.incomeAccount) =>
                LastCall.result.val = get_analytics(ReadWithout(t), LastCall.args, now)

\* C22 witness: get_analytics of type "all" was called for a period that
\* holds a transfer that is not deleted, and it counted the other transaction
C22_Witness ==
    /\ Returned("get_analytics")
    /\ LastCall.args.type = "all"
    /\ LastCall.result.val.transactionCount = 1
    /\ \E t \in ReadTransactions :
           /\ t.outcome > 0 /\ t.income > 0
           /\ t.outcomeAccount # t.incomeAccount
           /\ ~t.deleted
           /\ t.date >= LastCall.args.start_date
           /\ t.date <= EndDateOf(LastCall)

\* the transaction is not deleted and is dated within the period of the call,
\* the two bounds included
Selected(rec, t) ==
    /\ ~t.deleted
    /\ rec.args.start_date <= t.date
    /\ t.date <= EndDateOf(rec)

\* C23: get_transactions and get_analytics select the stored transactions
\* that are not deleted and are dated from start_date to the end date, both
\* included, before any other filter.  A transaction that is deleted or
\* dated outside the period is not returned by get_transactions and changes
\* nothing in the result of get_analytics; one that is selected is returned
\* by get_transactions when no other filter and no limit excludes it, and
\* is counted by get_analytics when the type filter accepts it.
C23_SelectsLiveInPeriod ==
    /\ Returned("get_transactions") =>
          \A t \in ReadTransactions :
              /\ ~Selected(LastCall, t) => t.id \notin IdsReturned(LastCall)
              /\ (Selected(LastCall, t)
                    /\ ~LastCall.args.type.has
                    /\ ~LastCall.args.account_id.has
                    /\ ~LastCall.args.category_id.has
                    /\ LastCall.args.limit >= Cardinality(ReadTransactions)) =>
                    t.id \in IdsReturned(LastCall)
    /\ Returned("get_analytics") =>
          \A t \in ReadTransactions :
              /\ ~Selected(LastCall, t) =>
                    LastCall.result.val
                        = get_analytics(ReadWithout(t), LastCall.args, now)
              /\ (Selected(LastCall, t)
                    /\ AnalyticsTypeFilter(t, LastCall.args.type)) =>
                    LastCall.result.val.transactionCount
                        = 1 + get_analytics(ReadWithout(t), LastCall.args,
                                            now).transactionCount

\* C23 witness: delete_transaction succeeded and the gateway returned the
\* transaction flagged deleted; then get_transactions, called for a period
\* that begins and ends on the date of the two transactions, returned the
\* other transaction only
C23_Witness ==
    /\ Len(lastApply) = 2
    /\ ~lastApply[1].threw
    /\ Returned("get_transactions")
    /\ LastCall.args.start_date = 1
    /\ LastCall.args.end_date = Some(1)
    /\ ~lastApply[1].before[<< "transaction", "tx1" >>].deleted
    /\ LastCall.before[<< "transaction", "tx1" >>].deleted
    /\ LastCall.before[<< "transaction", "tx1" >>].date = 1
    /\ IdsReturned(LastCall) = {"tx2"}

(***************************************************************************)
(* Claims about the transfer classifier (SpecClassify).                    *)
(***************************************************************************)
\* the transaction the classifier was applied to
ClassifiedTx == LastCall.before[<< "transaction", "tx1" >>]

\* the account the transaction moves money to, if the cache has it
Destination == Lookup(LastCall.before, "account", ClassifiedTx.incomeAccount)

\* the account the transaction moves money from, if the cache has it
Origin == Lookup(LastCall.before, "account", ClassifiedTx.outcomeAccount)

\* what the classifier returned
Classified == LastCall.result.val.classified

\* the account is a card with a credit limit
IsCredit(account) == account.type = "ccard" /\ account.creditLimit > 0

\* the account is a debit card or a checking account off the balance
IsOffBalance(account) ==
    /\ ~account.inBalance
    /\ \/ account.type = "ccard" /\ account.creditLimit = 0
       \/ account.type = "checking" /\ ~account.savings

\* the comment of the transaction holds a keyword of the list, capitals and
\* small letters taken as the same
CommentNamesKeyword ==
    /\ ClassifiedTx.comment.has
    /\ \E k \in LastCall.args.keywords.val :
          \E i \in 1..Len(ClassifiedTx.comment.val) :
              /\ i + Len(k) - 1 <= Len(ClassifiedTx.comment.val)
              /\ \A j \in 1..Len(k) :
                    LowerOf(ClassifiedTx.comment.val[i + j - 1]) = LowerOf(k[j])

C24_WitnessNotCounted ==
    /\ Returned("classify_transfer")
    /\ LastCall.args = DEFAULT_INCOME_VS_EXPENSE
    /\ Destination.has
    /\ IsCredit(Destination.val)
    /\ IsTransfer(ClassifiedTx)
    /\ ClassifiedTx.comment = Some(<< "x" >>)
    /\ ~Classified.has

\* C25: with countAllMovements a transfer to a credit account is an outcome
\* contribution of the whole outcome amount, whatever the inBalance flags of
\* the two accounts and the comment are; and whatever the mode, a
\* contribution is of the whole outcome amount, never of a part of it.
C25_CountAllMovements ==
    Returned("classify_transfer") =>
        /\ (/\ LastCall.args.countAllMovements
            /\ IsTransfer(ClassifiedTx)
            /\ Origin.has
            /\ Destination.has
            /\ IsCredit(Destination.val)) =>
              Classified = Contribution("outcome", ClassifiedTx.outcome)
        /\ Classified.has => Classified.val.amount = ClassifiedTx.outcome

\* C25 witness: with countAllMovements and no other flag, the transfer of
\* 5000 from a checking account in the balance to a credit card gave an
\* outcome of 5000
C25_Witness ==
    /\ Returned("classify_transfer")
    /\ LastCall.args.countAllMovements
    /\ ~LastCall.args.countCreditRepayments
    /\ Origin.has
    /\ Origin.val.type = "checking"
    /\ Origin.val.inBalance
    /\ Destination.has
    /\ IsCredit(Destination.val)
    /\ ClassifiedTx.outcome = ScenarioTransfer
    /\ ClassifiedTx.income = ScenarioTransfer
    /\ Classified = Contribution("outcome", 5000)

\* the entry of get_transactions for the transaction "tx1", when it has one
ReturnedTx1 ==
    { LastCall.result.val.transactions[i] :
        i \in { j \in 1..Len(LastCall.result.val.transactions) :
                  LastCall.result.val.transactions[j].id = "tx1" } }

\* the groups get_analytics returned
GroupsReturned ==
    { LastCall.result.val.groups[i] : i \in 1..Len(LastCall.result.val.groups) }

\* the titles of the categories of the transaction that the cache has
KnownCategories(tx) ==
    IF tx.tag.has
    THEN { << "title", tx.tag.val[i] >> :
             i \in { j \in 1..Len(tx.tag.val) :
                       MapHas(LastCall.before, << "tag", tx.tag.val[j] >>) } }
    ELSE {}

\* C26: a stored transaction whose account, category, merchant or instrument
\* is not in the cache makes no derived computation fail: get_transactions,
\* get_analytics and the transfer classifier return.  get_transactions
\* leaves the account and the currency it cannot find undefined and lists
\* the categories it finds; get_analytics counts the transaction under
\* 'Unknown Account' and in 'RUB'; the classifier does not count a
\* transaction without one of its accounts.
C26_NoFailureOnMalformedRecord ==
    /\ \A i \in 1..Len(lastApply) :
          lastApply[i].tool \in {"get_transactions", "get_analytics",
                                 "classify_transfer"} => ~lastApply[i].threw
    /\ Returned("get_transactions") =>
          \A e \in ReturnedTx1 :
              /\ (~Origin.has /\ e.type = "expense") => e.account = None
              /\ (~Destination.has /\ e.type = "income") => e.account = None
              /\ (~MapHas(LastCall.before,
                          << "instrument", ClassifiedTx.outcomeInstrument >>)
                    /\ e.type = "expense") => e.currency = None
              /\ { e.categories[i] : i \in 1..Len(e.categories) }
                    = KnownCategories(ClassifiedTx)
    /\ (Returned("get_analytics")
          /\ LastCall.args.group_by = "account"
          /\ LastCall.args.type = "expense"
          /\ ~Origin.has
          /\ Selected(LastCall, ClassifiedTx)
          /\ AnalyticsTypeFilter(ClassifiedTx, "expense")) =>
          \E g \in GroupsReturned :
              /\ g.name = Text("Unknown Account")
              /\ g.currency = Text("RUB")
              /\ g.total = ClassifiedTx.outcome
    /\ (Returned("classify_transfer") /\ (~Origin.has \/ ~Destination.has)) =>
          ~Classified.has

\* C26 witness: get_analytics by account counted an expense whose account
\* the cache does not have under 'Unknown Account'
C26_Witness ==
    /\ Returned("get_analytics")
    /\ LastCall.args.group_by = "account"
    /\ LastCall.args.type = "expense"
    /\ ~Origin.has
    /\ ClassifiedTx.tag = Some(<< UnknownId >>)
    /\ ClassifiedTx.merchant = Some("mX")
    /\ LastCall.result.val.transactionCount = 2
    /\ \E g \in GroupsReturned :
          g.name = Text("Unknown Account") /\ g.count = 1

\* C26 witness of the classifier: a transfer to an account the cache does
\* not have was not counted under countAllMovements
C26_WitnessClassifier ==
    /\ Returned("classify_transfer")
    /\ LastCall.args.countAllMovements
    /\ IsTransfer(ClassifiedTx)
    /\ ~Destination.has
    /\ ~Classified.has

(***************************************************************************)
(* Claims about the marker mode of get_reminders (SpecMarkers).            *)
(***************************************************************************)
\* the markers and the reminders of the cache the last call read
ReadMarkers == ValuesOf(LastCall.before, "reminderMarker")

ReadReminders == ValuesOf(LastCall.before, "reminder")

\* the marker passes the date and the state filters of the last call
Qualifies(m) ==
    /\ LastCall.args.marker_from <= m.date
    /\ m.date <= LastCall.args.marker_to
    /\ LastCall.args.include_processed \/ m.state = "planned"

\* the markers of the reminder that pass the filters
QualifyingOf(rid) == { m \in ReadMarkers : m.reminder = rid /\ Qualifies(m) }

\* the entries of the listing for the reminder
ListedAs(rid) == { e \in LastCall.result.val.reminders : e.id = rid }

\* the ids of the markers the listing shows
MarkerIdsListed ==
    UNION { { e.markers[i].id : i \in 1..Len(e.markers) } :
              e \in LastCall.result.val.reminders }

RECURSIVE SumOfSet(_, _)
SumOfSet(markers, field) ==
    IF markers = {} THEN 0
    ELSE LET m == CHOOSE x \in markers : TRUE
         IN  m[field] + SumOfSet(markers \ {m}, field)

InForecastPeriod(x) ==
    LastCall.args.start_date <= x.date /\ x.date <= LastCall.args.end_date

\* the entries of the calendar that the forecast returned for an id
EntriesOf(id) ==
    { i \in 1..Len(LastCall.result.val.calendar) :
        LastCall.result.val.calendar[i].id = id }

\* the markers of the period in state planned that are expenses
PlannedExpenses ==
    { m \in ReadMarkers :
        m.state = "planned" /\ InForecastPeriod(m) /\ m.income = 0 }

\* C27: the forecast counts no event twice.  The planned entries of the
\* calendar and the planned totals come from the markers in state planned
\* only; a processed marker has no entry, so an event whose marker is
\* processed and whose transaction lies in the period is counted once,
\* through the transaction.
C27_PlannedMarkersOnly ==
    Returned("analyze_budget_detailed") =>
        /\ \A i \in 1..Len(LastCall.result.val.calendar) :
              LastCall.result.val.calendar[i].kind = "planned" =>
                  \E m \in ReadMarkers :
                      /\ m.id = LastCall.result.val.calendar[i].id
                      /\ m.state = "planned"
        /\ LastCall.result.val.planned_outcome
              = SumOfSet(PlannedExpenses, "outcome")
        /\ \A t \in ReadTransactions, m \in ReadMarkers :
              (m.state = "processed" /\ ~t.deleted /\ InForecastPeriod(t)) =>
                  /\ EntriesOf(m.id) = {}
                  /\ Cardinality(EntriesOf(t.id)) = 1

\* C27 witness: the marker of the day of the transaction is processed, the
\* transaction is an expense of the period, and the calendar holds the
\* transaction and the planned marker that follows
C27_Witness ==
    /\ Returned("analyze_budget_detailed")
    /\ LastCall.args.start_date = 0
    /\ \E t \in ReadTransactions, m \in ReadMarkers :
          /\ m.state = "processed"
          /\ m.date = t.date
          /\ m.outcome = t.outcome
          /\ ~t.deleted
          /\ t.income = 0
          /\ InForecastPeriod(t)
          /\ LastCall.result.val.actual_outcome = t.outcome
    /\ LastCall.result.val.planned_outcome = ScenarioPlanned
    /\ Len(LastCall.result.val.calendar) = 2

\* the sum of the signed amounts of a set of transactions or markers
RECURSIVE SignedSum(_)
SignedSum(items) ==
    IF items = {} THEN 0
    ELSE LET x == CHOOSE y \in items : TRUE
         IN  SignedAmount(LastCall.before, x, LastCall.args.mode_config)
             + SignedSum(items \ {x})

\* the transactions that are not deleted and the planned markers dated from
\* the start of the period to the day
CountedUpTo(day) ==
    { t \in ReadTransactions :
        ~t.deleted /\ LastCall.args.start_date <= t.date /\ t.date <= day }
    \cup { m \in ReadMarkers :
             /\ m.state = "planned"
             /\ LastCall.args.start_date <= m.date /\ m.date <= day }

\* C28: the balance the forecast projects for the end of a day is the
\* starting balance plus the signed amounts, expenses negative and incomes
\* positive, of the actual and the planned entries dated from the start of
\* the period to that day.  With 50000 at the start, an actual expense of
\* 3000 on the second day and a planned expense of 12000 on the sixth, the
\* balance of the seventh day is 35000.
C28_ProjectedBalance ==
    Returned("analyze_budget_detailed") =>
        /\ \A day \in LastCall.args.start_date..LastCall.args.end_date :
              LastCall.result.val.balance[day]
                  = StartBalance(LastCall.before) + SignedSum(CountedUpTo(day))
        /\ (/\ LastCall.args.start_date = 0
            /\ LastCall.args.end_date >= 6
            /\ StartBalance(LastCall.before) = 50000
            /\ \E t \in ReadTransactions :
                  /\ ReadTransactions = {t}
                  /\ ~t.deleted /\ t.date = 1
                  /\ t.outcome = 3000 /\ t.income = 0
            /\ \E m \in ReadMarkers :
                  /\ ReadMarkers = {m}
                  /\ m.state = "planned" /\ m.date = 5
                  /\ m.outcome = 12000 /\ m.income = 0) =>
              LastCall.result.val.balance[6] = 35000

\* C28 witness: the scenario: the forecast gave 47000 for the end of the
\* second day and 35000 for the end of the seventh
C28_Witness ==
    /\ Returned("analyze_budget_detailed")
    /\ LastCall.args.start_date = 0
    /\ LastCall.args.end_date >= 6
    /\ \E t \in ReadTransactions :
          /\ ~t.deleted /\ t.date = ScenarioActualDay
          /\ t.outcome = ScenarioActual /\ t.income = 0
    /\ \E m \in ReadMarkers :
          /\ ReadMarkers = {m}
          /\ m.state = "planned" /\ m.date = ScenarioPlannedDay
          /\ m.outcome = ScenarioPlanned
    /\ LastCall.result.val.balance[1] = 47000
    /\ LastCall.result.val.balance[6] = 35000

(***************************************************************************)
(* Claims about get_reminders of the server (SpecReminders).               *)
(***************************************************************************)
\* the reminders the last call returned
RemindersReturned ==
    { LastCall.result.val.reminders[i] :
        i \in 1..Len(LastCall.result.val.reminders) }

\* the markers the last call attached to a reminder it returned
MarkersAttached(entry) == { entry.markers[i] : i \in 1..Len(entry.markers) }

\* the marker of the cache that an attached marker was made from
StoredMarkerOf(listed) ==
    { m \in ReadMarkers : m.id = listed.id /\ m.state = listed.state }

\* C31: every marker that get_reminders attaches to a reminder belongs to that
\* reminder and passes the state filter: with include_processed = false only
\* markers in state planned are attached, with include_processed = true
\* only markers in state planned or processed.
C31_MarkersOfReminderInState ==
    Returned("get_reminders") =>
        \A entry \in RemindersReturned : \A listed \in MarkersAttached(entry) :
            /\ \E m \in StoredMarkerOf(listed) : m.reminder = entry.id
            /\ listed.state \in (IF LastCall.args.include_processed
                                 THEN {"planned", "processed"}
                                 ELSE {"planned"})

\* delete_reminder found its reminder and the gateway returned the reminder
\* it was sent
DeleteReminderEchoed ==
    /\ Len(lastApply) >= 1
    /\ lastApply[1].tool = "delete_reminder"
    /\ ~lastApply[1].threw
    /\ store[<< "reminder", lastApply[1].args.id >>]
           = lastApply[1].changes.val.arrays["reminder"][1]

\* the ids of the reminders the last call returned
ReminderIdsReturned == { entry.id : entry \in RemindersReturned }

\* C36: after delete_reminder succeeded and the gateway returned the updated
\* reminder, the reminder is still in the store; get_reminders with
\* active_only = true does not return it, so a call that returns it was made
\* with active_only = false.
C36_DeletedReminderInactive ==
    DeleteReminderEchoed =>
        /\ MapHas(store, << "reminder", lastApply[1].args.id >>)
        /\ Returned("get_reminders") =>
              (lastApply[1].args.id \in ReminderIdsReturned =>
                   ~LastCall.args.active_only)

\* C36 witness: the reminder "r1" that had no end was deleted; get_reminders
\* for the active reminders returned "r2" and not "r1"
C36_Witness ==
    /\ DeleteReminderEchoed
    /\ ~lastApply[1].before[<< "reminder", "r1" >>].endDate.has
    /\ lastApply[1].args.id = "r1"
    /\ Returned("get_reminders")
    /\ LastCall.args.active_only
    /\ ReminderIdsReturned = {"r2"}

(***************************************************************************)
(* Claims about the client (SpecClient).                                   *)
(***************************************************************************)
\* the requests that have ended and whose first response was HTTP 401
EndedAfter401 ==
    { i \in 1..Len(client.log) :
        /\ client.log[i].outcome # "pending"
        /\ client.log[i].statuses # << >>
        /\ client.log[i].statuses[1] = 401 }

\* the request was sent again, once, with a token other than the first, and
\* a reply to the resend that is not a success made it throw
ResentOnce(r) ==
    /\ Len(r.bearers) = 2
    /\ r.bearers[2] # r.bearers[1]
    /\ (Len(r.statuses) = 2 /\ ~Ok(r.statuses[2])) => r.outcome = "threw"

\* the request threw after its one fetch
FailedWithoutResend(r) == Len(r.bearers) = 1 /\ r.outcome = "threw"

\* C32: for a request whose first response is HTTP 401: with credentials
\* configured the client discards the token, authenticates again and resends
\* the request exactly once, and a reply to the resend that is not a success
\* is reported as an error; with only a token configured the request fails
\* without a resend.  No request is sent more than twice.
C32_RetryOnceAfter401 ==
    /\ \A i \in 1..Len(client.log) : Len(client.log[i].bearers) <= 2
    /\ \A i \in EndedAfter401 :
          IF client.credentials
          THEN client.log[i].reAuths = 1 /\ ResentOnce(client.log[i])
          ELSE FailedWithoutResend(client.log[i])

\* C32 as amended: with credentials configured the client discards the token
\* and authenticates again; when authenticate() returns, the request is
\* resent exactly once, and when it throws, the request fails without a
\* resend.
C32_RetryOnceWhenAuthenticated ==
    /\ \A i \in 1..Len(client.log) : Len(client.log[i].bearers) <= 2
    /\ \A i \in EndedAfter401 :
          IF client.credentials
          THEN /\ client.log[i].reAuths = 1
               /\ IF client.log[i].reAuthFailed
                  THEN FailedWithoutResend(client.log[i])
                  ELSE ResentOnce(client.log[i])
          ELSE FailedWithoutResend(client.log[i])

\* C32 witness: a client with credentials was answered 401, authenticated
\* again and resent the request, and the 401 that answered the resend made
\* the request throw
C32_Witness ==
    /\ client.credentials
    /\ \E i \in EndedAfter401 :
          /\ ~client.log[i].reAuthFailed
          /\ Len(client.log[i].bearers) = 2
          /\ client.log[i].statuses = << 401, 401 >>
          /\ client.log[i].outcome = "threw"

(***************************************************************************)
(* Claims about the protocol (Spec).                                       *)
(***************************************************************************)
Settled(i) == calls[i].pc \in {"resolved", "rejected"}

\* call i has sent a request of its own
Sent(i) == calls[i].cursor # Undefined

\* call i has a request in flight
InFlight(i) == calls[i].pc = "awaitDiff"

Readers == { i \in CallIds : calls[i].op \in {"sync", "ensureInitialized"} }

Writers == { i \in CallIds : calls[i].op = "writeDiff" }

\* C1 as stated: a sync() or ensureInitialized() call made while a sync is in
\* flight sends no request of its own, and completes with the outcome of the
\* round trip that was in flight.
C1_SingleFlight ==
    \A i \in Readers :
        calls[i].during # 0 =>
            /\ ~Sent(i)
            /\ Settled(i) => calls[calls[i].during].pc = calls[i].pc

\* C1 amended: a sync() or ensureInitialized() call made while a sync is in
\* flight sends no request of its own; every sync() call and every
\* ensureInitialized() call that finds the cache uninitialized or stale
\* completes with the outcome of that round trip, and an ensureInitialized()
\* call that finds the cache initialized and fresh returns at once.
C1_SingleFlightJoiners ==
    \A i \in Readers :
        calls[i].during # 0 =>
            /\ ~Sent(i)
            /\ IF calls[i].found = "fresh"
               THEN calls[i].pc = "resolved"
               ELSE Settled(i) => calls[calls[i].during].pc = calls[i].pc

\* C1 witness: an ensureInitialized() call joined a sync in flight and
\* completed with it
C1_Witness ==
    \E i \in Readers :
        /\ calls[i].during # 0
        /\ calls[i].op = "ensureInitialized"
        /\ calls[i].found # "fresh"
        /\ calls[i].pc = "resolved"
        /\ calls[calls[i].during].gw = "answered"

\* C2: a writeDiff() called while a sync is in flight sends its request only
\* once that sync has settled; when the sync succeeded its response has been
\* applied and the write request carries the cursor that sync returned.
C2_WriteAfterSync ==
    \A i \in Writers :
        (calls[i].during # 0 /\ Sent(i)) =>
            LET s == calls[i].during
            IN  /\ Settled(s)
                /\ calls[s].pc = "resolved" =>
                      /\ calls[s].gw = "answered"
                      /\ calls[i].cursor = calls[s].ts

\* C2 witness: a write called during a sync has sent its request after the
\* sync succeeded, and the cursor had moved
C2_Witness ==
    \E i \in Writers :
        /\ calls[i].during # 0
        /\ Sent(i)
        /\ calls[calls[i].during].pc = "resolved"
        /\ calls[i].cursor > calls[calls[i].during].cursor

\* C3: two write requests are never in flight at the same time.
C3_OneWriteInFlight ==
    Cardinality({ i \in Writers : InFlight(i) }) <= 1

\* C4: at most one gateway diff request, sync or write, is in flight at any
\* time.
C4_OneRequestInFlight ==
    Cardinality({ i \in CallIds : InFlight(i) }) <= 1

\* C5: the step in which the gateway call of a sync or of a writeDiff fails
\* leaves the cursor, every entity map, the initialized flag and lastSyncTime
\* as they were.
C5_FailureLeavesCache ==
    [][ (\E i \in CallIds : calls[i].gw # "failed" /\ calls'[i].gw = "failed")
          => /\ serverTimestamp' = serverTimestamp
             /\ store' = store
             /\ initialized' = initialized
             /\ lastSyncTime' = lastSyncTime ]_vars

\* C5 witness: a sync request and a write request have failed on a cache
\* that holds a cursor and entities
C5_Witness ==
    /\ \E i \in Readers : calls[i].gw = "failed"
    /\ \E i \in Writers : calls[i].gw = "failed"
    /\ initialized
    /\ serverTimestamp > 0
    /\ store # EmptyStore

\* C6: a call whose own request failed is rejected, and so is every sync() or
\* ensureInitialized() call that joined a sync that was rejected; none of them
\* resolves.
C6_FailurePropagates ==
    \A i \in CallIds :
        /\ calls[i].gw = "failed" => calls[i].pc = "rejected"
        /\ (i \in Readers /\ calls[i].awaits # 0
              /\ calls[calls[i].awaits].pc = "rejected")
             => calls[i].pc = "rejected"

\* C6 witness: a sync failed at the gateway with another call joined to it,
\* and both were rejected
C6_Witness ==
    \E s \in Readers :
        /\ calls[s].gw = "failed"
        /\ calls[s].pc = "rejected"
        /\ \E i \in Readers :
              /\ calls[i].awaits = s
              /\ calls[i].pc = "rejected"

\* C7: the cursor never decreases (the gateway's timestamps never decrease in
\* the order it serves requests).
C7_CursorNeverDecreases == [][serverTimestamp' >= serverTimestamp]_vars

\* C10: ensureInitialized() on a cache that has never been synchronized, with
\* no sync in flight, sends a request with cursor 0; on a stale cache, with no
\* sync in flight, it sends a request; on a fresh cache it returns without
\* sending one.
C10_EnsureInitialized ==
    \A i \in CallIds :
        calls[i].op = "ensureInitialized" =>
            /\ (calls[i].virgin /\ calls[i].during = 0) => calls[i].cursor = 0
            /\ (calls[i].found = "stale" /\ calls[i].during = 0) => Sent(i)
            /\ calls[i].found = "fresh" => (~Sent(i) /\ calls[i].pc = "resolved")

\* C11: in the step in which a sync is rejected the in-flight marker is
\* cleared and the cursor is the one the rejected request carried; and a
\* sync() call, or an ensureInitialized() call that finds the cache
\* uninitialized or stale, made when no sync is in flight sends a request
\* that carries the cache's cursor: the next such call after a failed sync
\* retries with the cursor of the failed request.
C11_RetryAfterFailure ==
    [][ /\ \A i \in Readers :
              (calls[i].pc = "awaitDiff" /\ calls'[i].pc = "rejected")
                 => /\ syncPromise' = 0
                    /\ serverTimestamp' = calls[i].cursor
        /\ \A k \in CallIds :
              (/\ calls[k].op = "none"
               /\ calls'[k].op \in {"sync", "ensureInitialized"}
               /\ calls'[k].found # "fresh"
               /\ syncPromise = 0)
                 => /\ calls'[k].gw = "sent"
                    /\ calls'[k].cursor = serverTimestamp ]_vars

\* C12: a write tool reads the store and calls writeDiff in one synchronous
\* run, after ensureInitialized has returned (the cache is initialized and
\* fresh); when its write request has been sent, no response was applied to
\* the store since that read, that is, writeDiff did not wait for a sync.
C12_WriteBuiltOnCurrentStore ==
    \A i \in Writers :
        (calls[i].found = "fresh" /\ Sent(i)) => calls[i].during = 0

\* check_auth_status: the status the handler reports once the
\* ensureInitialized() it awaits has settled
check_auth_status(c) ==
    IF c.pc = "resolved" THEN "authenticated"
    ELSE IF c.pc = "rejected" THEN "error"
    ELSE "pending"

\* a request to the gateway, the call's own or the one of the sync it
\* joined, was answered while the call was running
GatewayAnswered(c) ==
    \/ c.gw = "answered"
    \/ c.awaits # 0 /\ calls[c.awaits].gw = "answered"

\* C33: check_auth_status reports "authenticated" only when a gateway call
\* made during the invocation succeeded; a sync made earlier does not make
\* it report "authenticated".
C33_AuthenticatedByGatewayCall ==
    \A i \in CallIds :
        (/\ calls[i].op = "ensureInitialized"
         /\ check_auth_status(calls[i]) = "authenticated") =>
            GatewayAnswered(calls[i])

\* C34: a writeDiff() called while a sync is in flight issues its own write
\* request once that sync has completed, whether the sync succeeded or
\* failed.
C34_WriteIssuedAfterSync ==
    \A i \in Writers :
        (/\ calls[i].during # 0
         /\ calls[calls[i].during].pc \in {"resolved", "rejected"}) =>
            Sent(i)

\* every writeDiff() was called on a cache that ensureInitialized() had found
\* or left initialized
WritesFollowEnsureInitialized ==
    \A i \in Writers : calls[i].found # "uninitialized"

\* a cache that is not initialized has cursor 0 and empty entity maps
UninitializedIsEmpty ==
    ~initialized => (serverTimestamp = 0 /\ store = EmptyStore)

\* the requests sent on a cache that was not initialized carry cursor 0
FirstRequestIsFullSnapshot ==
    \A i \in Readers :
        (calls[i].found = "uninitialized" /\ Sent(i)) => calls[i].cursor = 0

\* C37: when writeDiff is only called after ensureInitialized() has returned
\* successfully, a cache with initialized = false has cursor 0 and empty
\* entity maps, initialized never reverts from true to false, and the request
\* that first populates the cache is a full-snapshot request with cursor 0.
C37_UninitializedCacheIsPristine ==
    /\ [](WritesFollowEnsureInitialized =>
             (UninitializedIsEmpty /\ FirstRequestIsFullSnapshot))
    /\ [][initialized => initialized']_vars

====
